---- MODULE Spec2Model ----
(***************************************************************************)
(* A model of the binary protocol layer of precog-markets: the Borsh       *)
(* writer and reader (src/src/serialization.js), the account decoders      *)
(* (src/src/accounts.js) and the instruction builders                      *)
(* (src/src/instructions.js).                                              *)
(*                                                                         *)
(* Representation of values.                                               *)
(*   - a byte is an integer in 0..255, a Buffer a sequence of bytes;       *)
(*     offsets are 0-based as in the source, sequences 1-based;            *)
(*   - u8 and u16 numbers are integers;                                    *)
(*   - wider integers (u32, u64, i64, BigInt) are records                  *)
(*     [neg |-> BOOLEAN, mag |-> limbs], the magnitude being a             *)
(*     little-endian sequence of base-65536 digits, because 2^32 and 2^64  *)
(*     exceed the integers of the model checker;                           *)
(*   - a string is the sequence of its Unicode scalar values;              *)
(*   - a PublicKey that is serialized is its 32 bytes; an account address  *)
(*     that is only placed in an account list is a name.                   *)
(***************************************************************************)
EXTENDS Integers, Sequences, FiniteSets, TLC

VARIABLES
  wr,       \* the BorshWriter: [buf, offset, st]
  written,  \* the values written so far, in call order: [op, v, bytes]
  rd,       \* the BorshReader: [buf, offset]
  rres,     \* the outcome of the last reader call
  acct,     \* what the on-chain program stored in the account: type, layout
  data,     \* the account bytes handed to a decoder
  dres,     \* the outcome of the last decoder call
  ix,       \* the outcome of the last instruction builder call
  pda,      \* the outcome of the last address derivation
  cl,       \* the client: the call in progress, its tasks and its result
  heap      \* memory blocks and the Buffer views on them

vars == <<wr, written, rd, rres, acct, data, dres, ix, pda, cl, heap>>

(***************************************************************************)
(* Bytes and wide integers                                                 *)
(***************************************************************************)
Byte == 0..255

Zeros(n) == [i \in 1..n |-> 0]

\* bytes[from, to) with 0-based offsets; like Buffer.subarray both ends are
\* clamped to the buffer.
subarray(buf, from, to) ==
  LET f == IF from > Len(buf) THEN Len(buf) ELSE from
      t == IF to > Len(buf) THEN Len(buf) ELSE to
  IN  IF t <= f THEN <<>> ELSE SubSeq(buf, f + 1, t)

\* buf with src copied in at 0-based offset off (Buffer.copy, buf.writeUIntLE)
copy(buf, off, src) ==
  [i \in 1..Len(buf) |->
     IF i > off /\ i <= off + Len(src) THEN src[i - off] ELSE buf[i]]

\* the byte strings of ss, one after the other
RECURSIVE Concat(_)
Concat(ss) == IF ss = <<>> THEN <<>> ELSE Head(ss) \o Concat(Tail(ss))

\* the magnitude m padded or cut to n limbs
Limbs(m, n) == [i \in 1..n |-> IF i <= Len(m) THEN m[i] ELSE 0]

IsZero(m) == \A i \in DOMAIN m : m[i] = 0

\* m < 65536^n
FitsLimbs(m, n) == \A i \in DOMAIN m : i > n => m[i] = 0

\* n limbs as 2n little-endian bytes
LimbBytes(m, n) ==
  [i \in 1..(2 * n) |->
     IF i % 2 = 1 THEN Limbs(m, n)[(i + 1) \div 2] % 256
                  ELSE Limbs(m, n)[i \div 2] \div 256]

\* 2n little-endian bytes as n limbs
BytesLimbs(bs) ==
  [i \in 1..(Len(bs) \div 2) |-> bs[2 * i - 1] + 256 * bs[2 * i]]

\* 65536^n - m for 0 < m <= 65536^n: two's complement over n limbs
RECURSIVE AddOne(_, _)
AddOne(m, i) ==
  IF i > Len(m) THEN m
  ELSE IF m[i] = 65535 THEN AddOne([m EXCEPT ![i] = 0], i + 1)
  ELSE [m EXCEPT ![i] = m[i] + 1]

TwosComplement(m, n) ==
  AddOne([i \in 1..n |-> 65535 - Limbs(m, n)[i]], 1)

\* a small non-negative integer as a wide integer
Num(x) == [neg |-> FALSE, mag |-> <<x % 65536, x \div 65536>>]

\* numeric equality of wide integers
NumEq(a, b) ==
  LET n == IF Len(a.mag) > Len(b.mag) THEN Len(a.mag) ELSE Len(b.mag)
  IN  /\ Limbs(a.mag, n) = Limbs(b.mag, n)
      /\ (a.neg = b.neg \/ IsZero(a.mag))

\* the value of a u32 when it is at most max, else max + 1 (buffers of the
\* model are far shorter than 65536 bytes)
Clamp32(v, max) ==
  IF Limbs(v.mag, 2)[2] > 0 \/ Limbs(v.mag, 2)[1] > max THEN max + 1
  ELSE Limbs(v.mag, 2)[1]

(***************************************************************************)
(* UTF-8 (Buffer.from(s, "utf-8") and buf.toString("utf-8"))               *)
(***************************************************************************)
REPLACEMENT == <<239, 191, 189>>   \* U+FFFD, as bytes

\* the UTF-8 bytes of one code point; an unpaired surrogate is written as
\* U+FFFD
Utf8Char(c) ==
  IF c < 128 THEN <<c>>
  ELSE IF c < 2048 THEN <<192 + (c \div 64), 128 + (c % 64)>>
  ELSE IF c \in 55296..57343 THEN REPLACEMENT
  ELSE IF c < 65536
    THEN <<224 + (c \div 4096), 128 + ((c \div 64) % 64), 128 + (c % 64)>>
  ELSE <<240 + (c \div 262144), 128 + ((c \div 4096) % 64),
         128 + ((c \div 64) % 64), 128 + (c % 64)>>

\* the bytes of the code points of s in order, the string being cut in
\* halves to keep the evaluation shallow
RECURSIVE Utf8Encode(_)
Utf8Encode(s) ==
  IF s = <<>> THEN <<>>
  ELSE IF Len(s) = 1 THEN Utf8Char(s[1])
  ELSE Utf8Encode(SubSeq(s, 1, Len(s) \div 2))
         \o Utf8Encode(SubSeq(s, Len(s) \div 2 + 1, Len(s)))

\* The decoder, one code point at a time: the code point that starts at byte
\* i and the index of the byte read next. A malformed or cut sequence gives
\* one U+FFFD (65533), and the byte that ended it is read again as the start
\* of a sequence.
Utf8At(bs, i) ==
  LET b == bs[i]
      needed == IF b \in 194..223 THEN 1 ELSE IF b \in 224..239 THEN 2
                ELSE IF b \in 240..244 THEN 3 ELSE 0
      lower == IF b = 224 THEN 160 ELSE IF b = 240 THEN 144 ELSE 128
      upper == IF b = 237 THEN 159 ELSE IF b = 244 THEN 143 ELSE 191
      cont(j, lo, hi) == j <= Len(bs) /\ bs[j] >= lo /\ bs[j] <= hi
      seen == IF ~cont(i + 1, lower, upper) THEN 0
              ELSE IF needed = 1 \/ ~cont(i + 2, 128, 191) THEN 1
              ELSE IF needed = 2 \/ ~cont(i + 3, 128, 191) THEN 2
              ELSE 3
      lead == IF needed = 1 THEN b % 32 ELSE IF needed = 2 THEN b % 16
              ELSE b % 8
  IN  IF b <= 127 THEN [cp |-> b, next |-> i + 1]
      ELSE IF needed = 0 THEN [cp |-> 65533, next |-> i + 1]
      ELSE IF seen < needed THEN [cp |-> 65533, next |-> i + seen + 1]
      ELSE IF needed = 1
        THEN [cp |-> lead * 64 + (bs[i + 1] % 64), next |-> i + 2]
      ELSE IF needed = 2
        THEN [cp |-> (lead * 64 + (bs[i + 1] % 64)) * 64 + (bs[i + 2] % 64),
              next |-> i + 3]
      ELSE [cp |-> ((lead * 64 + (bs[i + 1] % 64)) * 64 + (bs[i + 2] % 64))
                     * 64 + (bs[i + 3] % 64),
            next |-> i + 4]

\* at most k code points from byte i on, followed by the index of the byte
\* read next
RECURSIVE Utf8Run(_, _, _)
Utf8Run(bs, i, k) ==
  IF i > Len(bs) \/ k = 0 THEN <<i>>
  ELSE <<Utf8At(bs, i).cp>> \o Utf8Run(bs, Utf8At(bs, i).next, k - 1)

\* the code points from byte i on, decoded in runs of 32
RECURSIVE Utf8Dec(_, _)
Utf8Dec(bs, i) ==
  IF i > Len(bs) THEN <<>>
  ELSE LET run == Utf8Run(bs, i, 32)
       IN  SubSeq(run, 1, Len(run) - 1) \o Utf8Dec(bs, run[Len(run)])

Utf8Decode(bs) == Utf8Dec(bs, 1)

(***************************************************************************)
(* BorshWriter                                                             *)
(*   st is "ok" while every call so far returned, "RangeError" once a      *)
(*   Buffer write threw, "hang" once _grow cannot end.                     *)
(***************************************************************************)
BorshWriter(initialCapacity) ==
  [buf |-> Zeros(initialCapacity), offset |-> 0, st |-> "ok"]

\* _grow without the copy of the old buffer
_growNoCopy(w, needed) ==
  IF w.offset + needed > Len(w.buf)
    THEN IF Len(w.buf) = 0 THEN [w EXCEPT !.st = "hang"]
         ELSE [w EXCEPT !.buf = Zeros(2 * (w.offset + needed))]
    ELSE w

\* while (offset + needed > buf.length) buf = a zeroed buffer of twice the
\* length with buf copied to its start. A buffer of length 0 stays of length
\* 0: the loop does not end.
RECURSIVE _grow(_, _)
_grow(w, needed) ==
  IF w.offset + needed > Len(w.buf)
    THEN IF Len(w.buf) = 0 THEN [w EXCEPT !.st = "hang"]
         ELSE _grow([w EXCEPT !.buf = copy(Zeros(2 * Len(w.buf)), 0, w.buf)],
                    needed)
    ELSE w

toBuffer(w) == subarray(w.buf, 0, w.offset)

\* _grow(n), then the bytes are stored at offset and offset advances; a value
\* out of range makes the Buffer write throw after the growth
PutBytes(w, n, inRange, bytes) ==
  IF w.st # "ok" THEN w
  ELSE LET g == _grow(w, n) IN
    IF g.st # "ok" THEN g
    ELSE IF ~inRange THEN [g EXCEPT !.st = "RangeError"]
    ELSE [g EXCEPT !.buf = copy(g.buf, g.offset, bytes),
                   !.offset = g.offset + n]

writeU8(w, v) == PutBytes(w, 1, v \in 0..255, <<v % 256>>)

writeU16(w, v) ==
  PutBytes(w, 2, v \in 0..65535, <<v % 256, (v \div 256) % 256>>)

writeU32(w, v) ==
  PutBytes(w, 4, (~v.neg \/ IsZero(v.mag)) /\ FitsLimbs(v.mag, 2),
           LimbBytes(v.mag, 2))

\* writeU64 that stores the low 8 bytes of any value
writeU64Wrapping(w, v) == PutBytes(w, 8, TRUE, LimbBytes(v.mag, 4))

writeU64(w, v) ==
  PutBytes(w, 8, (~v.neg \/ IsZero(v.mag)) /\ FitsLimbs(v.mag, 4),
           LimbBytes(v.mag, 4))

\* -2^63 <= v < 2^63
InI64(v) ==
  /\ FitsLimbs(v.mag, 4)
  /\ \/ Limbs(v.mag, 4)[4] < 32768
     \/ v.neg /\ Limbs(v.mag, 4) = <<0, 0, 0, 32768>>

writeI64(w, v) ==
  PutBytes(w, 8, InI64(v),
           IF v.neg /\ ~IsZero(v.mag)
             THEN LimbBytes(TwosComplement(v.mag, 4), 4)
             ELSE LimbBytes(v.mag, 4))

writeBool(w, v) == writeU8(w, IF v THEN 1 ELSE 0)

writeFixedBytes(w, bytes) == PutBytes(w, Len(bytes), TRUE, bytes)

writeString(w, s) ==
  LET bytes == Utf8Encode(s)
  IN  writeFixedBytes(writeU32(w, Num(Len(bytes))), bytes)

\* the callback handed to writeVec or writeOption, named by the writer
\* method it calls: (w, v) => w.writeString(v), ...
callWrite(writeFn, w, v) ==
  CASE writeFn = "writeU8" -> writeU8(w, v)
    [] writeFn = "writeU16" -> writeU16(w, v)
    [] writeFn = "writeU32" -> writeU32(w, v)
    [] writeFn = "writeU64" -> writeU64(w, v)
    [] writeFn = "writeI64" -> writeI64(w, v)
    [] writeFn = "writeBool" -> writeBool(w, v)
    [] writeFn = "writeString" -> writeString(w, v)
    [] writeFn = "writeFixedBytes" -> writeFixedBytes(w, v)

\* for (const item of arr) writeFn(this, item): a write that throws ends
\* the loop
RECURSIVE writeItems(_, _, _, _)
writeItems(w, arr, i, writeFn) ==
  IF i > Len(arr) \/ w.st # "ok" THEN w
  ELSE writeItems(callWrite(writeFn, w, arr[i]), arr, i + 1, writeFn)

writeVec(w, arr, writeFn) ==
  writeItems(writeU32(w, Num(Len(arr))), arr, 1, writeFn)

\* a JavaScript value that may be null or undefined
Null == [t |-> "null"]
Undefined == [t |-> "undefined"]
Some(x) == [t |-> "val", v |-> x]

\* writeOption testing `if (!val)`: 0 and false are written as absent
writeOptionFalsy(w, val, writeFn) ==
  IF \/ val.t \in {"null", "undefined"}
     \/ writeFn = "writeU16" /\ val.v = 0
     \/ writeFn = "writeBool" /\ val.v = FALSE
    THEN writeU8(w, 0)
  ELSE callWrite(writeFn, writeU8(w, 1), val.v)

writeOption(w, val, writeFn) ==
  IF val.t \in {"null", "undefined"} THEN writeU8(w, 0)
  ELSE callWrite(writeFn, writeU8(w, 1), val.v)

writePubkey(w, pk) == writeFixedBytes(w, pk)

(***************************************************************************)
(* BorshReader                                                             *)
(*   A call returns [ok |-> TRUE, r |-> the reader after it, v |-> value]  *)
(*   or, when it throws, [ok |-> FALSE, err |-> the error, r |-> reader].  *)
(***************************************************************************)
BorshReader(bytes) == [buf |-> bytes, offset |-> 0]

Ok(r, v) == [ok |-> TRUE, r |-> r, v |-> v]
Throw(r, e) == [ok |-> FALSE, err |-> e, r |-> r]

\* _check with the comparison off by one
_checkOffByOne(r, n) == ~(r.offset + n > Len(r.buf) + 1)

\* TRUE when _check(n) returns, FALSE when it throws the RangeError
_check(r, n) == ~(r.offset + n > Len(r.buf))

\* the n bytes at the offset, and the reader past them
Take(r, n) == subarray(r.buf, r.offset, r.offset + n)
Advance(r, n) == [r EXCEPT !.offset = r.offset + n]

\* buf.readUInt8 / readUInt16LE / ... (offset): the Buffer method itself throws
\* ERR_OUT_OF_RANGE when the n bytes at the offset are not all in the buffer
readUIntLE(r, n) ==
  IF r.offset < 0 \/ r.offset + n > Len(r.buf)
    THEN Throw(r, "ERR_OUT_OF_RANGE")
    ELSE Ok(Advance(r, n), Take(r, n))

readU8(r) ==
  IF ~_check(r, 1) THEN Throw(r, "RangeError")
  ELSE LET b == readUIntLE(r, 1) IN IF b.ok THEN Ok(b.r, b.v[1]) ELSE b

readU16(r) ==
  IF ~_check(r, 2) THEN Throw(r, "RangeError")
  ELSE LET b == readUIntLE(r, 2) IN
    IF b.ok THEN Ok(b.r, b.v[1] + 256 * b.v[2]) ELSE b

readU32(r) ==
  IF ~_check(r, 4) THEN Throw(r, "RangeError")
  ELSE LET b == readUIntLE(r, 4) IN
    IF b.ok THEN Ok(b.r, [neg |-> FALSE, mag |-> BytesLimbs(b.v)]) ELSE b

readU64(r) ==
  IF ~_check(r, 8) THEN Throw(r, "RangeError")
  ELSE LET b == readUIntLE(r, 8) IN
    IF b.ok THEN Ok(b.r, [neg |-> FALSE, mag |-> BytesLimbs(b.v)]) ELSE b

\* readI64 that reads the bytes as unsigned (readBigUInt64LE)
readI64Unsigned(r) ==
  IF ~_check(r, 8) THEN Throw(r, "RangeError")
  ELSE LET b == readUIntLE(r, 8) IN
    IF b.ok THEN Ok(b.r, [neg |-> FALSE, mag |-> BytesLimbs(b.v)]) ELSE b

readI64(r) ==
  IF ~_check(r, 8) THEN Throw(r, "RangeError")
  ELSE LET b == readUIntLE(r, 8)
           m == BytesLimbs(b.v)
       IN IF ~b.ok THEN b
          ELSE Ok(b.r, IF m[4] >= 32768
                         THEN [neg |-> TRUE, mag |-> TwosComplement(m, 4)]
                         ELSE [neg |-> FALSE, mag |-> m])

readBool(r) ==
  LET b == readU8(r) IN IF b.ok THEN Ok(b.r, b.v # 0) ELSE b

readFixedBytes(r, len) ==
  IF ~_check(r, len) THEN Throw(r, "RangeError")
  ELSE Ok(Advance(r, len), Take(r, len))

readString(r) ==
  LET n == readU32(r) IN
  IF ~n.ok THEN n
  ELSE LET len == Clamp32(n.v, Len(r.buf)) IN
    IF ~_check(n.r, len) THEN Throw(n.r, "RangeError")
    ELSE Ok(Advance(n.r, len), Utf8Decode(Take(n.r, len)))

readPubkey(r) == readFixedBytes(r, 32)

\* the callback handed to readVec or readOption, or one read of a decoder,
\* named by the reader method it calls and the length it passes:
\* <<"readU8", 0>> is (r) => r.readU8()
callRead(readFn, r) ==
  CASE readFn[1] = "readU8" -> readU8(r)
    [] readFn[1] = "readU16" -> readU16(r)
    [] readFn[1] = "readU32" -> readU32(r)
    [] readFn[1] = "readU64" -> readU64(r)
    [] readFn[1] = "readI64" -> readI64(r)
    [] readFn[1] = "readBool" -> readBool(r)
    [] readFn[1] = "readString" -> readString(r)
    [] readFn[1] = "readPubkey" -> readPubkey(r)
    [] readFn[1] = "readFixedBytes" -> readFixedBytes(r, readFn[2])

\* for (i = 0; i < len; i++) arr.push(readFn(this)): k items are left to read
RECURSIVE readItems(_, _, _, _)
readItems(r, k, arr, readFn) ==
  IF k = 0 THEN Ok(r, arr)
  ELSE LET x == callRead(readFn, r) IN
    IF x.ok THEN readItems(x.r, k - 1, Append(arr, x.v), readFn) ELSE x

\* every callback takes at least one byte, so a count above the buffer
\* length ends in the callback's RangeError
readVec(r, readFn) ==
  LET n == readU32(r)
  IN  IF n.ok THEN readItems(n.r, Clamp32(n.v, Len(r.buf)), <<>>, readFn)
      ELSE n

readOption(r, readFn) ==
  LET tag == readU8(r) IN
  IF ~tag.ok THEN tag
  ELSE IF tag.v = 0 THEN Ok(tag.r, Null)
  ELSE LET x == callRead(readFn, tag.r) IN
    IF x.ok THEN Ok(x.r, Some(x.v)) ELSE x

skip(r, n) ==
  IF ~_check(r, n) THEN Throw(r, "RangeError")
  ELSE Ok(Advance(r, n), Undefined)

(***************************************************************************)
(* SpecReader: any sequence of reader calls on any buffer                  *)
(***************************************************************************)
MaxReadBuf == 40   \* longest buffer handed to a reader
MaxReadLen == 3    \* lengths passed to readFixedBytes and skip: 0..MaxReadLen

\* Three byte patterns: a Borsh string "e-acute" then mixed bytes; all 0xFF
\* (a u32 length of 2^32 - 1, an i64 of -1); mostly zero (absent options,
\* short vectors).
Pattern(p, i) ==
  IF p = 1
    THEN (IF i = 1 THEN 2 ELSE IF i \in 2..4 THEN 0 ELSE IF i = 5 THEN 195
          ELSE IF i = 6 THEN 169 ELSE (i * 37) % 256)
  ELSE IF p = 2 THEN 255
  ELSE (IF i % 5 = 0 THEN 1 ELSE 0)

ReaderInputs ==
  {[i \in 1..n |-> Pattern(p, i)] : n \in 0..MaxReadBuf, p \in 1..3}

NoWriter == <<>>
NoReader == <<>>
NoDecode == <<>>
NoIx == <<>>
NoPda == <<>>
NoClient == <<>>
NoHeap == <<>>

ReaderInit ==
  /\ rd \in {BorshReader(b) : b \in ReaderInputs}
  /\ rres = [op |-> "new", arg |-> 0, before |-> 0, ok |-> TRUE, out |-> 0]
  /\ wr = NoWriter /\ written = <<>>
  /\ acct = NoDecode /\ data = NoDecode /\ dres = NoDecode /\ ix = NoIx
  /\ pda = NoPda /\ cl = NoClient /\ heap = NoHeap

\* one reader call: the reader is left as the call left it, also when it
\* threw
Call(op, arg, res) ==
  /\ rd' = res.r
  /\ rres' = [op |-> op, arg |-> arg, before |-> rd.offset, ok |-> res.ok,
              out |-> IF res.ok THEN res.v ELSE res.err]
  /\ UNCHANGED <<wr, written, acct, data, dres, ix, pda, cl, heap>>

ReadU8 == Call("readU8", 0, readU8(rd))
ReadU16 == Call("readU16", 0, readU16(rd))
ReadU32 == Call("readU32", 0, readU32(rd))
ReadU64 == Call("readU64", 0, readU64(rd))
ReadI64 == Call("readI64", 0, readI64(rd))
ReadBool == Call("readBool", 0, readBool(rd))
ReadString == Call("readString", 0, readString(rd))
ReadFixedBytes ==
  \E len \in 0..MaxReadLen : Call("readFixedBytes", len, readFixedBytes(rd, len))
ReadPubkey == Call("readPubkey", 0, readPubkey(rd))
ReadVec == Call("readVec", 0, readVec(rd, <<"readU16", 0>>))
ReadOption == Call("readOption", 0, readOption(rd, <<"readU8", 0>>))
Skip == \E n \in 0..MaxReadLen : Call("skip", n, skip(rd, n))

ReaderNext ==
  \/ ReadU8 \/ ReadU16 \/ ReadU32 \/ ReadU64 \/ ReadI64 \/ ReadBool
  \/ ReadString \/ ReadFixedBytes \/ ReadPubkey \/ ReadVec \/ ReadOption
  \/ Skip

SpecReader == ReaderInit /\ [][ReaderNext]_vars

\* The bytes a call needs from offset `before` of buf, by the wire format:
\* the fixed widths, the u32 length prefix plus the declared length, the
\* presence tag plus the payload.
Declared(buf, before) ==
  Clamp32([neg |-> FALSE, mag |-> BytesLimbs(subarray(buf, before, before + 4))],
          Len(buf))

Needs(op, arg, buf, before) ==
  CASE op = "readU8" -> 1
    [] op = "readBool" -> 1
    [] op = "readU16" -> 2
    [] op = "readU32" -> 4
    [] op = "readU64" -> 8
    [] op = "readI64" -> 8
    [] op = "readPubkey" -> 32
    [] op \in {"readFixedBytes", "skip"} -> arg
    [] op = "readString" ->
         IF Len(buf) - before < 4 THEN 4 ELSE 4 + Declared(buf, before)
    [] op = "readVec" ->
         IF Len(buf) - before < 4 THEN 4 ELSE 4 + 2 * Declared(buf, before)
    [] op = "readOption" ->
         IF Len(buf) - before < 1 \/ buf[before + 1] = 0 THEN 1 ELSE 2
    [] OTHER -> 0

\* C1: the offset of a BorshReader stays within 0..buffer length, and a call
\* that needs more bytes than remain fails with the out-of-range error, while
\* a call that returns has advanced by exactly the bytes it needed, all of
\* them inside the buffer.
C1_OffsetInBounds ==
  /\ rd.offset \in 0..Len(rd.buf)
  /\ rres.op # "new" =>
       LET need == Needs(rres.op, rres.arg, rd.buf, rres.before)
           remain == Len(rd.buf) - rres.before
       IN  /\ need > remain => ~rres.ok /\ rres.out = "RangeError"
           /\ rres.ok => need <= remain /\ rd.offset = rres.before + need

\* a read at the very end of a buffer that was read to its end has failed
C1_Witness ==
  /\ rres.op = "readU64" /\ ~rres.ok /\ rres.out = "RangeError"
  /\ rres.before > 0 /\ rd.offset = Len(rd.buf)

(***************************************************************************)
(* SpecCodec: a writer is filled by a sequence of write calls, then a      *)
(* reader on toBuffer() reads the values back with the mirror calls        *)
(***************************************************************************)
MaxWrites == 2   \* write calls on one writer

InitialCapacities == {0, 1, 3}

Wide(neg, l0, l1, l2, l3) == [neg |-> neg, mag |-> <<l0, l1, l2, l3>>]

Case(op, fn, v, bytes) == [op |-> op, fn |-> fn, v |-> v, bytes |-> bytes]

\* Values of each declared domain, its ends included, each with the bytes
\* Borsh prescribes for it (worked out by hand, little-endian).
Vectors ==
 << Case("writeU8", "", 0, <<0>>),
    Case("writeU8", "", 255, <<255>>),
    Case("writeU16", "", 258, <<2, 1>>),
    Case("writeU16", "", 65535, <<255, 255>>),
    Case("writeU32", "", [neg |-> FALSE, mag |-> <<772, 258>>], <<4, 3, 2, 1>>),
    Case("writeU32", "", [neg |-> FALSE, mag |-> <<65535, 65535>>],
         <<255, 255, 255, 255>>),
    Case("writeU64", "", Wide(FALSE, 0, 0, 0, 0), <<0, 0, 0, 0, 0, 0, 0, 0>>),
    Case("writeU64", "", Wide(FALSE, 51712, 15258, 0, 0),
         <<0, 202, 154, 59, 0, 0, 0, 0>>),
    Case("writeU64", "", Wide(FALSE, 1800, 1286, 772, 258),
         <<8, 7, 6, 5, 4, 3, 2, 1>>),
    Case("writeU64", "", Wide(FALSE, 65535, 65535, 65535, 65535),
         <<255, 255, 255, 255, 255, 255, 255, 255>>),
    Case("writeI64", "", Wide(TRUE, 2, 0, 0, 0),
         <<254, 255, 255, 255, 255, 255, 255, 255>>),
    Case("writeI64", "", Wide(TRUE, 0, 0, 0, 32768),
         <<0, 0, 0, 0, 0, 0, 0, 128>>),
    Case("writeI64", "", Wide(FALSE, 65535, 65535, 65535, 32767),
         <<255, 255, 255, 255, 255, 255, 255, 127>>),
    Case("writeI64", "", Wide(TRUE, 0, 1, 0, 0),
         <<0, 0, 255, 255, 255, 255, 255, 255>>),
    Case("writeBool", "", TRUE, <<1>>),
    Case("writeBool", "", FALSE, <<0>>),
    Case("writeString", "", <<>>, <<0, 0, 0, 0>>),
    Case("writeString", "", <<65, 8364>>, <<4, 0, 0, 0, 65, 226, 130, 172>>),
    Case("writeString", "", <<233, 128512>>,
         <<6, 0, 0, 0, 195, 169, 240, 159, 152, 128>>),
    Case("writeFixedBytes", "", <<>>, <<>>),
    Case("writeFixedBytes", "", <<1, 0, 255>>, <<1, 0, 255>>),
    Case("writePubkey", "", [i \in 1..32 |-> 8 * i - 1], [i \in 1..32 |-> 8 * i - 1]),
    Case("writeVec", "writeString", <<>>, <<0, 0, 0, 0>>),
    Case("writeVec", "writeString", <<<<65>>, <<>>>>,
         <<2, 0, 0, 0, 1, 0, 0, 0, 65, 0, 0, 0, 0>>),
    Case("writeVec", "writeU16", <<258, 65535, 0>>,
         <<3, 0, 0, 0, 2, 1, 255, 255, 0, 0>>),
    Case("writeOption", "writeU16", Null, <<0>>),
    Case("writeOption", "writeBool", Undefined, <<0>>),
    Case("writeOption", "writeU16", Some(0), <<1, 0, 0>>),
    Case("writeOption", "writeBool", Some(FALSE), <<1, 0>>) >>

CodecInit ==
  /\ wr \in {BorshWriter(c) : c \in InitialCapacities}
  /\ written = <<>>
  /\ rd = NoReader /\ rres = <<>>
  /\ acct = NoDecode /\ data = NoDecode /\ dres = NoDecode /\ ix = NoIx
  /\ pda = NoPda /\ cl = NoClient /\ heap = NoHeap

\* one write call; a call that returned is added to the history
Write(c) ==
  LET w == CASE c.op = "writeU8" -> writeU8(wr, c.v)
             [] c.op = "writeU16" -> writeU16(wr, c.v)
             [] c.op = "writeU32" -> writeU32(wr, c.v)
             [] c.op = "writeU64" -> writeU64(wr, c.v)
             [] c.op = "writeI64" -> writeI64(wr, c.v)
             [] c.op = "writeBool" -> writeBool(wr, c.v)
             [] c.op = "writeString" -> writeString(wr, c.v)
             [] c.op = "writeFixedBytes" -> writeFixedBytes(wr, c.v)
             [] c.op = "writePubkey" -> writePubkey(wr, c.v)
             [] c.op = "writeVec" -> writeVec(wr, c.v, c.fn)
             [] c.op = "writeOption" -> writeOption(wr, c.v, c.fn)
  IN  /\ rd = NoReader /\ wr.st = "ok" /\ Len(written) < MaxWrites
      /\ wr' = w
      /\ written' = IF w.st = "ok" THEN Append(written, c) ELSE written
      /\ UNCHANGED <<rd, rres, acct, data, dres, ix, pda, cl, heap>>

WriteAny == \E i \in DOMAIN Vectors : Write(Vectors[i])

\* new BorshReader(wr.toBuffer())
StartRead ==
  /\ rd = NoReader /\ wr.st = "ok"
  /\ rd' = BorshReader(toBuffer(wr))
  /\ UNCHANGED <<wr, written, rres, acct, data, dres, ix, pda, cl, heap>>

\* the reader method that mirrors a writer method
Mirror(fn) ==
  CASE fn = "writeU8" -> "readU8"
    [] fn = "writeU16" -> "readU16"
    [] fn = "writeU32" -> "readU32"
    [] fn = "writeU64" -> "readU64"
    [] fn = "writeI64" -> "readI64"
    [] fn = "writeBool" -> "readBool"
    [] fn = "writeString" -> "readString"
    [] fn = "writePubkey" -> "readPubkey"

\* the mirror call for the next value of the history
ReadBack ==
  /\ rd # NoReader /\ Len(rres) < Len(written)
  /\ (Len(rres) > 0 => rres[Len(rres)].ok)
  /\ LET c == written[Len(rres) + 1]
         res == CASE c.op = "writeFixedBytes" -> readFixedBytes(rd, Len(c.v))
                  [] c.op = "writeVec" -> readVec(rd, <<Mirror(c.fn), 0>>)
                  [] c.op = "writeOption" -> readOption(rd, <<Mirror(c.fn), 0>>)
                  [] OTHER -> callRead(<<Mirror(c.op), 0>>, rd)
     IN  /\ rd' = res.r
         /\ rres' = Append(rres, [ok |-> res.ok, offset |-> res.r.offset,
                                  out |-> IF res.ok THEN res.v ELSE res.err])
  /\ UNCHANGED <<wr, written, acct, data, dres, ix, pda, cl, heap>>

CodecNext == WriteAny \/ StartRead \/ ReadBack

SpecCodec == CodecInit /\ [][CodecNext]_vars

Expected(cs) == Concat([i \in 1..Len(cs) |-> cs[i].bytes])

\* what was written and what was read are the same value: wide integers by
\* their number, an absent option (null or undefined) by being absent
Same(op, a, b) ==
  CASE op \in {"writeU32", "writeU64", "writeI64"} -> NumEq(a, b)
    [] op = "writeOption" ->
         IF a.t = "val" THEN b = a ELSE b.t \in {"null", "undefined"}
    [] OTHER -> a = b

\* C3: a value written by a BorshWriter method and read from toBuffer() by
\* the mirror BorshReader method is read back unchanged, and the reader offset
\* after it is the number of bytes written up to and including that value.
C3_RoundTrip ==
  rd # NoReader =>
    \A i \in 1..Len(rres) :
      /\ rres[i].ok
      /\ Same(written[i].op, written[i].v, rres[i].out)
      /\ rres[i].offset = Len(Expected(SubSeq(written, 1, i)))
      /\ (i = Len(written) => rres[i].offset = wr.offset)

\* two values were written, the buffer grew meanwhile, and both were read back
C3_Witness ==
  /\ rd # NoReader /\ Len(written) = 2 /\ Len(rres) = 2
  /\ written[1].op = "writeI64" /\ written[2].op = "writeString"
  /\ Len(written[2].v) = 2 /\ Len(wr.buf) > 3

\* C4: after any sequence of successful writes toBuffer() is the
\* concatenation, in call order and without padding, of the little-endian
\* encodings of the written values (so growing the buffer keeps every byte
\* written before).
C4_Concatenation ==
  (wr # NoWriter /\ wr.st = "ok") => toBuffer(wr) = Expected(written)

\* the buffer has grown twice since the first of two writes
C4_Witness ==
  /\ wr.st = "ok" /\ Len(written) = 2 /\ Len(wr.buf) = 12
  /\ written[1].op = "writeU16" /\ written[2].op = "writeString"

(***************************************************************************)
(* Account decoders (src/src/accounts.js)                                  *)
(*   A decoder returns [ok |-> TRUE, v |-> the record] or, when a call in  *)
(*   it throws, [ok |-> FALSE, err |-> the error].                         *)
(***************************************************************************)
MAX_OUTCOMES == 10
MAX_TITLE_LEN == 128
MAX_DESCRIPTION_LEN == 512
MAX_OUTCOME_LABEL_LEN == 64
MAX_MULTISIG_SIGNERS == 11

\* one read of a decoder: the property it fills, the reader call, and for
\* a loop of `count` calls pushed to an array the count (0: a single call)
Field(name, readFn, count) == [name |-> name, fn |-> readFn, count |-> count]

PROPOSAL_ACTION_NAMES ==
  <<"ResolveMarket", "VoidMarket", "UpdateDeadline", "UpdateFeeBps",
    "AddSigner", "RemoveSigner", "ChangeThreshold">>

RECURSIVE decodeProposalAction(_)

\* the call of one Field: a reader method, const x = r.offset, or
\* decodeProposalAction(r)
readField(r, f) ==
  IF f.fn[1] = "offset" THEN Ok(r, r.offset)
  ELSE IF f.fn[1] = "decodeProposalAction" THEN decodeProposalAction(r)
  ELSE IF f.count = 0 THEN callRead(f.fn, r)
  ELSE readItems(r, f.count, <<>>, f.fn)

\* the reads from fields[i] on, in order, each stored under its name; the
\* first call that throws ends the decoder (x is what fields[i] returned)
RECURSIVE readFields(_, _, _, _)
readRest(x, fields, i, rec) ==
  IF x.ok THEN readFields(x.r, fields, i + 1, rec @@ (fields[i].name :> x.v))
  ELSE x

readFields(r, fields, i, rec) ==
  IF i > Len(fields) THEN Ok(r, rec)
  ELSE readRest(readField(r, fields[i]), fields, i, rec)

NoFields == [n \in {} |-> 0]

\* Buffer.from(buf).subarray(0, len).toString("utf-8")
decodeFixedString(buf, len) == Utf8Decode(subarray(buf, 0, len))

\* slice that keeps the whole array
sliceAll(arr, n) == arr

\* arr.slice(0, n)
slice(arr, n) == subarray(arr, 0, n)

STATUS_MAP == <<"Open", "Resolved", "Finalized", "Voided">>
DENOM_MAP == <<"NativeSol", "SplToken", "Token2022">>

\* MAP[code] ?? `Unknown(${code})`
mapName(map, code) ==
  IF code + 1 \in DOMAIN map THEN map[code + 1] ELSE <<"Unknown", code>>

\* decodeMarket, up to the layout detection: the fields both layouts share,
\* then the speculative read of the creator fields and the new-layout title
MarketHead ==
  << Field("discriminator", <<"readFixedBytes", 8>>, 0),
     Field("bump", <<"readU8", 0>>, 0),
     Field("marketId", <<"readU64", 0>>, 0),
     Field("authority", <<"readPubkey", 0>>, 0),
     Field("authorityIsMultisig", <<"readBool", 0>>, 0),
     Field("status", <<"readU8", 0>>, 0),
     Field("resolutionDeadline", <<"readI64", 0>>, 0),
     Field("resolvedAt", <<"readI64", 0>>, 0),
     Field("winningOutcome", <<"readU8", 0>>, 0),
     Field("feeBps", <<"readU16", 0>>, 0),
     Field("feesCollected", <<"readU64", 0>>, 0),
     Field("numOutcomes", <<"readU8", 0>>, 0),
     Field("outcomePools", <<"readU64", 0>>, MAX_OUTCOMES),
     Field("totalPool", <<"readU64", 0>>, 0),
     Field("totalPositions", <<"readU64", 0>>, 0),
     Field("denomination", <<"readU8", 0>>, 0),
     Field("tokenMint", <<"readPubkey", 0>>, 0),
     Field("tokenDecimals", <<"readU8", 0>>, 0),
     Field("hasTransferFee", <<"readBool", 0>>, 0),
     Field("transferFeeBps", <<"readU16", 0>>, 0),
     Field("maxTransferFee", <<"readU64", 0>>, 0),
     Field("preCreatorOffset", <<"offset", 0>>, 0),
     Field("creatorBytes", <<"readFixedBytes", 32>>, 0),
     Field("creatorFeeBpsVal", <<"readU16", 0>>, 0),
     Field("titleBytesNew", <<"readFixedBytes", MAX_TITLE_LEN>>, 0),
     Field("titleLenNew", <<"readU16", 0>>, 0) >>

\* the old-layout branch reads the title again
MarketTitle ==
  << Field("titleBytes", <<"readFixedBytes", MAX_TITLE_LEN>>, 0),
     Field("titleLen", <<"readU16", 0>>, 0) >>

\* what both branches read after the title
MarketRest ==
  << Field("descBytes", <<"readFixedBytes", MAX_DESCRIPTION_LEN>>, 0),
     Field("descLen", <<"readU16", 0>>, 0),
     Field("rawLabels", <<"readFixedBytes", MAX_OUTCOME_LABEL_LEN>>, MAX_OUTCOMES),
     Field("labelLens", <<"readU16", 0>>, MAX_OUTCOMES) >>

\* a probe that never falls back to the old layout
useNewLayoutAlways(bytes, preCreatorOffset, titleLenNew) == TRUE

\* the layout probe: FALSE when the new-layout title length is 0 and the
\* old-layout title length, read from the caller's bytes, is in 1..128
useNewLayout(bytes, preCreatorOffset, titleLenNew) ==
  LET oldTitleLenOffset == preCreatorOffset + MAX_TITLE_LEN
      at == subarray(bytes, oldTitleLenOffset, oldTitleLenOffset + 2)
      oldTitleLen == at[1] + 256 * at[2]
  IN  ~(/\ titleLenNew = 0
        /\ oldTitleLenOffset + 2 <= Len(bytes)
        /\ oldTitleLen > 0 /\ oldTitleLen <= MAX_TITLE_LEN)

\* what a decoder gives its caller: the record, or the error thrown
result(x) ==
  IF x.ok THEN [ok |-> TRUE, v |-> x.v] ELSE [ok |-> FALSE, err |-> x.err]

\* the end of either branch of decodeMarket and the returned object, x being
\* what the reads of the branch gave; rawLabels[i] is undefined from i = 10
\* on, and Buffer.from(undefined) throws a TypeError
marketRecord(x, new) ==
  IF ~x.ok THEN result(x)
  ELSE IF x.v.numOutcomes > MAX_OUTCOMES THEN [ok |-> FALSE, err |-> "TypeError"]
  ELSE [ok |-> TRUE, v |->
    [discriminator |-> x.v.discriminator, bump |-> x.v.bump,
     marketId |-> x.v.marketId, authority |-> x.v.authority,
     authorityIsMultisig |-> x.v.authorityIsMultisig,
     status |-> x.v.status, statusName |-> mapName(STATUS_MAP, x.v.status),
     resolutionDeadline |-> x.v.resolutionDeadline,
     resolvedAt |-> x.v.resolvedAt, winningOutcome |-> x.v.winningOutcome,
     feeBps |-> x.v.feeBps, feesCollected |-> x.v.feesCollected,
     numOutcomes |-> x.v.numOutcomes,
     outcomePools |-> slice(x.v.outcomePools, x.v.numOutcomes),
     totalPool |-> x.v.totalPool, totalPositions |-> x.v.totalPositions,
     denomination |-> x.v.denomination,
     denominationName |-> mapName(DENOM_MAP, x.v.denomination),
     tokenMint |-> x.v.tokenMint, tokenDecimals |-> x.v.tokenDecimals,
     hasTransferFee |-> x.v.hasTransferFee,
     transferFeeBps |-> x.v.transferFeeBps,
     maxTransferFee |-> x.v.maxTransferFee,
     creator |-> IF new THEN x.v.creatorBytes ELSE Zeros(32),
     creatorFeeBps |-> IF new THEN x.v.creatorFeeBpsVal ELSE 0,
     title |-> IF new
                 THEN decodeFixedString(x.v.titleBytesNew, x.v.titleLenNew)
                 ELSE decodeFixedString(x.v.titleBytes, x.v.titleLen),
     description |-> decodeFixedString(x.v.descBytes, x.v.descLen),
     outcomeLabels |->
       [i \in 1..x.v.numOutcomes |->
          decodeFixedString(x.v.rawLabels[i], x.v.labelLens[i])]]]

\* decodeMarket from the layout detection on, h being what the reads before
\* it gave; the old-layout branch rewinds the reader to preCreatorOffset
marketLayout(bytes, h) ==
  IF ~h.ok THEN result(h)
  ELSE IF useNewLayout(bytes, h.v.preCreatorOffset, h.v.titleLenNew)
    THEN marketRecord(readFields(h.r, MarketRest, 1, h.v), TRUE)
    ELSE marketRecord(
           readFields([h.r EXCEPT !.offset = h.v.preCreatorOffset],
                      MarketTitle \o MarketRest, 1, h.v), FALSE)

decodeMarket(bytes) ==
  marketLayout(bytes, readFields(BorshReader(bytes), MarketHead, 1, NoFields))

\* a decoder that is one object literal of reader calls
decodeFields(bytes, fields) ==
  result(readFields(BorshReader(bytes), fields, 1, NoFields))

decodeUserPosition(bytes) ==
  decodeFields(bytes,
    << Field("discriminator", <<"readFixedBytes", 8>>, 0),
       Field("bump", <<"readU8", 0>>, 0),
       Field("market", <<"readPubkey", 0>>, 0),
       Field("owner", <<"readPubkey", 0>>, 0),
       Field("outcomeIndex", <<"readU8", 0>>, 0),
       Field("amount", <<"readU64", 0>>, 0),
       Field("claimed", <<"readBool", 0>>, 0),
       Field("lastDepositAt", <<"readI64", 0>>, 0) >>)

decodeProtocolConfig(bytes) ==
  decodeFields(bytes,
    << Field("discriminator", <<"readFixedBytes", 8>>, 0),
       Field("bump", <<"readU8", 0>>, 0),
       Field("admin", <<"readPubkey", 0>>, 0),
       Field("defaultFeeBps", <<"readU16", 0>>, 0),
       Field("treasury", <<"readPubkey", 0>>, 0),
       Field("paused", <<"readBool", 0>>, 0),
       Field("totalMarketsCreated", <<"readU64", 0>>, 0),
       Field("totalVolume", <<"readU64", 0>>, 0) >>)

\* the object decodeMultisigAuthority returns from what it has read
multisigRecord(x) ==
  IF ~x.ok THEN x
  ELSE [ok |-> TRUE, v |->
    [discriminator |-> x.v.discriminator, bump |-> x.v.bump,
     nonce |-> x.v.nonce, threshold |-> x.v.threshold,
     numSigners |-> x.v.numSigners,
     signers |-> slice(x.v.allSigners, x.v.numSigners),
     proposalCount |-> x.v.proposalCount]]

decodeMultisigAuthority(bytes) ==
  multisigRecord(decodeFields(bytes,
    << Field("discriminator", <<"readFixedBytes", 8>>, 0),
       Field("bump", <<"readU8", 0>>, 0),
       Field("nonce", <<"readU64", 0>>, 0),
       Field("threshold", <<"readU8", 0>>, 0),
       Field("numSigners", <<"readU8", 0>>, 0),
       Field("allSigners", <<"readPubkey", 0>>, MAX_MULTISIG_SIGNERS),
       Field("proposalCount", <<"readU64", 0>>, 0) >>))

\* the reads of each case of the switch, by tag
ActionFields(tag) ==
  CASE tag = 0 -> <<Field("winningOutcome", <<"readU8", 0>>, 0)>>
    [] tag = 1 -> <<>>
    [] tag = 2 -> <<Field("newDeadline", <<"readI64", 0>>, 0)>>
    [] tag = 3 -> <<Field("newFeeBps", <<"readU16", 0>>, 0)>>
    [] tag = 4 -> <<Field("newSigner", <<"readFixedBytes", 32>>, 0)>>
    [] tag = 5 -> <<Field("signer", <<"readFixedBytes", 32>>, 0)>>
    [] tag = 6 -> <<Field("newThreshold", <<"readU8", 0>>, 0)>>

\* the object a case of the switch returns, x being what its reads gave
actionRecord(tag, x) ==
  IF ~x.ok THEN x
  ELSE Ok(x.r, [tag |-> tag, name |-> mapName(PROPOSAL_ACTION_NAMES, tag),
                fields |-> x.v])

\* a switch whose default returns the tag and name without fields
decodeProposalActionDefault(r) ==
  LET tag == readU8(r)
  IN  IF ~tag.ok THEN tag
      ELSE IF tag.v \notin 0..6 THEN actionRecord(tag.v, Ok(tag.r, NoFields))
      ELSE actionRecord(tag.v,
             readFields(tag.r, ActionFields(tag.v), 1, NoFields))

decodeProposalAction(r) ==
  LET tag == readU8(r)
  IN  IF ~tag.ok THEN tag
      ELSE IF tag.v \notin 0..6 THEN Throw(tag.r, "Unknown ProposalAction tag")
      ELSE actionRecord(tag.v,
             readFields(tag.r, ActionFields(tag.v), 1, NoFields))

decodeMultisigProposal(bytes) ==
  decodeFields(bytes,
    << Field("discriminator", <<"readFixedBytes", 8>>, 0),
       Field("bump", <<"readU8", 0>>, 0),
       Field("multisig", <<"readPubkey", 0>>, 0),
       Field("market", <<"readPubkey", 0>>, 0),
       Field("proposalId", <<"readU64", 0>>, 0),
       Field("action", <<"decodeProposalAction", 0>>, 0),
       Field("proposer", <<"readPubkey", 0>>, 0),
       Field("approvals", <<"readU16", 0>>, 0),
       Field("approvalCount", <<"readU8", 0>>, 0),
       Field("executed", <<"readBool", 0>>, 0),
       Field("createdAt", <<"readI64", 0>>, 0) >>)

(***************************************************************************)
(* SpecDecode: account bytes as the on-chain program lays them out (and    *)
(* cut or foreign ones) are handed to each of the five decoders            *)
(***************************************************************************)
\* ACCOUNT_DISCRIMINATORS: MARKETV2, POSITNV1, PROTOCOL, MULTSIG1, PROPOSL1
ACCOUNT_DISCRIMINATORS ==
  [ MARKET |-> <<77, 65, 82, 75, 69, 84, 86, 50>>,
    USER_POSITION |-> <<80, 79, 83, 73, 84, 78, 86, 49>>,
    PROTOCOL_CONFIG |-> <<80, 82, 79, 84, 79, 67, 79, 76>>,
    MULTISIG_AUTHORITY |-> <<77, 85, 76, 84, 83, 73, 71, 49>>,
    MULTISIG_PROPOSAL |-> <<80, 82, 79, 80, 79, 83, 76, 49>> ]

\* little-endian fields, a 32-byte key and a fixed region, as stored
Le16(x) == <<x % 256, x \div 256>>
Le64(x) == <<x % 256, x \div 256, 0, 0, 0, 0, 0, 0>>
Key(k) == [i \in 1..32 |-> k]
Region(bytes, capacity) == bytes \o Zeros(capacity - Len(bytes))

\* A Market account: every one of the 10 pool and label slots is filled,
\* whatever numOutcomes says. The old layout has no creator block.
MarketImage(layout, title, desc, numOutcomes) ==
  ACCOUNT_DISCRIMINATORS.MARKET \o <<254>> \o Le64(7) \o Key(1) \o <<0, 1>>
  \o Le64(5000) \o Le64(4000) \o <<2>> \o Le16(250) \o Le64(9)
  \o <<numOutcomes>>
  \o Concat([i \in 1..MAX_OUTCOMES |-> Le64(100 + i)])
  \o Le64(1055) \o Le64(12) \o <<1>> \o Key(2) \o <<6, 1>> \o Le16(50)
  \o Le64(1000)
  \o (IF layout = "new" THEN Key(3) \o Le16(100) ELSE <<>>)
  \o Region(title, MAX_TITLE_LEN) \o Le16(Len(title))
  \o Region(desc, MAX_DESCRIPTION_LEN) \o Le16(Len(desc))
  \o Concat([i \in 1..MAX_OUTCOMES |-> Region(<<76, 47 + i>>, MAX_OUTCOME_LABEL_LEN)])
  \o Concat([i \in 1..MAX_OUTCOMES |-> Le16(2)])

PositionImage ==
  ACCOUNT_DISCRIMINATORS.USER_POSITION \o <<253>> \o Key(4) \o Key(5) \o <<1>>
  \o Le64(777) \o <<0>> \o Le64(3000)

ConfigImage ==
  ACCOUNT_DISCRIMINATORS.PROTOCOL_CONFIG \o <<252>> \o Key(6) \o Le16(200)
  \o Key(7) \o <<0>> \o Le64(3) \o Le64(900)

MultisigImage(numSigners) ==
  ACCOUNT_DISCRIMINATORS.MULTISIG_AUTHORITY \o <<251>> \o Le64(1)
  \o <<2, numSigners>>
  \o Concat([i \in 1..MAX_MULTISIG_SIGNERS |-> Key(10 + i)]) \o Le64(4)

\* the payload that follows the tag of a ProposalAction
ActionPayload(tag) ==
  CASE tag \in {0, 6} -> <<3>>
    [] tag = 1 -> <<>>
    [] tag = 2 -> Le64(6000)
    [] tag = 3 -> Le16(300)
    [] tag \in {4, 5} -> Key(9)
    [] OTHER -> <<0>>

ProposalImage(tag) ==
  ACCOUNT_DISCRIMINATORS.MULTISIG_PROPOSAL \o <<250>> \o Key(8) \o Key(1)
  \o Le64(3) \o <<tag>> \o ActionPayload(tag) \o Key(12) \o Le16(5)
  \o <<2, 0>> \o Le64(2000)

Account(type, layout, bytes) ==
  [acct |-> [type |-> type, layout |-> layout], data |-> bytes]

\* `bytes` with the little-endian u16 at `off` set to v
SetU16(bytes, off, v) ==
  [i \in 1..Len(bytes) |->
     IF i = off + 1 THEN v % 256
     ELSE IF i = off + 2 THEN v \div 256 ELSE bytes[i]]

\* a 3-outcome Market account with a full title region, a 10-byte
\* description and the declared lengths given, whatever the regions hold
DeclaredImage(layout, titleLen, descLen, labelLen) ==
  LET base == IF layout = "new" THEN 254 ELSE 220
  IN  SetU16(SetU16(SetU16(
        MarketImage(layout, [i \in 1..MAX_TITLE_LEN |-> 116],
                    [i \in 1..10 |-> 100], 3),
        base + 128, titleLen), base + 642, descLen), base + 1284, labelLen)

\* the declared lengths tried: within, at, just above and far above the
\* capacities
DeclaredLengths ==
  {<<1, 600, 2>>, <<128, 512, 64>>, <<129, 513, 65>>,
   <<65535, 65535, 65535>>}

\* the accounts a client can be handed: whole ones of each type, a Market
\* with the 175 reserved bytes after it, and cut ones
Accounts ==
  LET Titles == {<<>>, <<84>>, <<84, 195, 169>>,
                 [i \in 1..MAX_TITLE_LEN |-> 116]}
      Descriptions == {<<>>, [i \in 1..10 |-> 100], [i \in 1..40 |-> 100]}
      OutcomeCounts == {0, 3, 10, 11, 255}
      SignerCounts == {0, 2, 11, 12, 255}
      ActionTags == 0..8 \cup {128, 255}
  IN
  {Account("Market", l, MarketImage(l, t, d, n)) :
     l \in {"old", "new"}, t \in Titles, d \in Descriptions,
     n \in OutcomeCounts}
  \cup {Account("Market", "new",
                MarketImage("new", <<84>>, <<>>, 3) \o Zeros(175))}
  \cup {Account("UserPosition", "", PositionImage),
        Account("ProtocolConfig", "", ConfigImage)}
  \cup {Account("MultisigAuthority", "", MultisigImage(n)) : n \in SignerCounts}
  \cup {Account("MultisigProposal", "", ProposalImage(t)) : t \in ActionTags}
  \cup {Account("Market", l, DeclaredImage(l, n[1], n[2], n[3])) :
          l \in {"old", "new"}, n \in DeclaredLengths}
  \cup {Account("Market", "old",
                MarketImage("old", <<84>>, [i \in 1..40 |-> 100], 3)
                \o Zeros(209))}
  \cup {Account("Market", "cut",
                subarray(MarketImage("new", <<84>>, <<>>, 3), 0, n)) :
          n \in {0, 7, 100, 300, 1500}}

DecodeInit ==
  /\ \E a \in Accounts : acct = a.acct /\ data = a.data
  /\ dres = [by |-> "none"]
  /\ wr = NoWriter /\ written = <<>> /\ rd = NoReader /\ rres = <<>>
  /\ ix = NoIx /\ pda = NoPda /\ cl = NoClient /\ heap = NoHeap

\* one decoder call on the account bytes
Decode(by, res) ==
  /\ dres' = [by |-> by, res |-> res]
  /\ UNCHANGED <<wr, written, rd, rres, acct, data, ix, pda, cl, heap>>

DecodeMarket == Decode("Market", decodeMarket(data))
DecodeUserPosition == Decode("UserPosition", decodeUserPosition(data))
DecodeProtocolConfig == Decode("ProtocolConfig", decodeProtocolConfig(data))
DecodeMultisigAuthority ==
  Decode("MultisigAuthority", decodeMultisigAuthority(data))
DecodeMultisigProposal ==
  Decode("MultisigProposal", decodeMultisigProposal(data))

DecodeNext ==
  \/ DecodeMarket \/ DecodeUserPosition \/ DecodeProtocolConfig
  \/ DecodeMultisigAuthority \/ DecodeMultisigProposal

SpecDecode == DecodeInit /\ [][DecodeNext]_vars

\* C2: bytes whose first 8 bytes are not the discriminator of the decoder's
\* account type make that decoder fail with a discriminator-mismatch error;
\* no decoder returns a record for them.
C2_DiscriminatorEnforced ==
  LET expected == [Market |-> ACCOUNT_DISCRIMINATORS.MARKET,
                   UserPosition |-> ACCOUNT_DISCRIMINATORS.USER_POSITION,
                   ProtocolConfig |-> ACCOUNT_DISCRIMINATORS.PROTOCOL_CONFIG,
                   MultisigAuthority |->
                     ACCOUNT_DISCRIMINATORS.MULTISIG_AUTHORITY,
                   MultisigProposal |->
                     ACCOUNT_DISCRIMINATORS.MULTISIG_PROPOSAL]
  IN  (dres.by # "none" /\ subarray(data, 0, 8) # expected[dres.by])
        => (~dres.res.ok /\ dres.res.err = "DiscriminatorMismatch")

\* the u16 stored little-endian at a byte offset of an account
U16At(buf, off) == buf[off + 1] + 256 * buf[off + 2]

\* the title, description and first n labels stored in a Market account
\* whose title region starts at byte `base`: each text is the first `length`
\* bytes of its fixed region, the lengths follow the regions
TextAt(buf, base, n) ==
  LET region(off, capacity, len) ==
        Utf8Decode(subarray(subarray(buf, off, off + capacity), 0, len))
      desc == base + MAX_TITLE_LEN + 2
      labels == desc + MAX_DESCRIPTION_LEN + 2
      lens == labels + MAX_OUTCOMES * MAX_OUTCOME_LABEL_LEN
  IN  [title |-> region(base, MAX_TITLE_LEN, U16At(buf, desc - 2)),
       description |->
         region(desc, MAX_DESCRIPTION_LEN, U16At(buf, labels - 2)),
       outcomeLabels |->
         [i \in 1..n |->
            region(labels + (i - 1) * MAX_OUTCOME_LABEL_LEN,
                   MAX_OUTCOME_LABEL_LEN, U16At(buf, lens + 2 * (i - 1)))]]

\* the texts of a Market record
TextOf(m) ==
  [title |-> m.title, description |-> m.description,
   outcomeLabels |-> m.outcomeLabels]

\* C5: decodeMarket on a legacy Market account (no creator block, old-layout
\* title length in 1..128, new-layout title length reading as 0) gives the
\* all-zero creator, creatorFeeBps 0 and the title, description and labels
\* stored at the old-layout offsets; on a new-layout account with a
\* non-empty title it gives the stored creator and creatorFeeBps and the
\* texts stored at the new-layout offsets. (A record is returned exactly
\* when numOutcomes is at most 10.)
C5_DualLayout ==
  (dres.by = "Market" /\ acct.type = "Market"
     /\ acct.layout \in {"old", "new"}) =>
    LET n == data[79]
        legacy == /\ acct.layout = "old"
                  /\ U16At(data, 348) \in 1..MAX_TITLE_LEN
                  /\ U16At(data, 382) = 0
        current == acct.layout = "new" /\ U16At(data, 382) # 0
        m == dres.res.v
    IN  /\ (legacy \/ current) => (dres.res.ok <=> n <= MAX_OUTCOMES)
        /\ (legacy /\ dres.res.ok) =>
             /\ m.creator = Zeros(32) /\ m.creatorFeeBps = 0
             /\ TextOf(m) = TextAt(data, 220, n)
        /\ (current /\ dres.res.ok) =>
             /\ m.creator = subarray(data, 220, 252)
             /\ m.creatorFeeBps = U16At(data, 252)
             /\ TextOf(m) = TextAt(data, 254, n)

\* a legacy account titled "T e-acute" with a 10-byte description has been
\* decoded under the old layout
C5_Witness ==
  /\ dres.by = "Market" /\ acct.type = "Market" /\ acct.layout = "old"
  /\ dres.res.ok
  /\ dres.res.v.title = <<84, 233>> /\ Len(dres.res.v.description) = 10
  /\ dres.res.v.creator = Zeros(32) /\ dres.res.v.numOutcomes = 3
  /\ dres.res.v.outcomeLabels[3] = <<76, 50>>

\* C6: every Market record decodeMarket returns has as many outcomePools
\* and outcomeLabels as its numOutcomes, which is at most 10, whatever the
\* 10 fixed slots hold; no record is returned when the numOutcomes byte is
\* above 10.
C6_OutcomeTruncation ==
  dres.by = "Market" =>
    /\ dres.res.ok =>
         /\ Len(dres.res.v.outcomePools) = dres.res.v.numOutcomes
         /\ Len(dres.res.v.outcomeLabels) = dres.res.v.numOutcomes
         /\ dres.res.v.numOutcomes <= MAX_OUTCOMES
         /\ dres.res.v.numOutcomes = data[79]
    /\ (Len(data) >= 79 /\ data[79] > MAX_OUTCOMES) => ~dres.res.ok

\* a Market account with numOutcomes = 3 and all 10 slots filled has been
\* decoded to 3 pools and 3 labels
C6_Witness ==
  /\ dres.by = "Market" /\ dres.res.ok /\ data[79] = 3
  /\ U16At(data, 1538 + 18) = 2 /\ data[80 + 72] = 110
  /\ Len(dres.res.v.outcomePools) = 3 /\ Len(dres.res.v.outcomeLabels) = 3

\* C8: an Action whose tag byte is in 7..255 is not decoded: the decoder
\* throws the unknown-tag error whatever follows the tag, and
\* decodeMultisigProposal on a buffer with such a tag (at byte 81) fails
\* with that error instead of returning a record.
C8_UnknownTag ==
  dres.by = "MultisigProposal" =>
    /\ (Len(data) > 81 /\ data[82] \in 7..255) =>
         (~dres.res.ok /\ dres.res.err = "Unknown ProposalAction tag")
    /\ \A t \in 7..255 :
         LET x == decodeProposalAction(BorshReader(<<t>> \o subarray(data, 0, 40)))
         IN  ~x.ok /\ x.err = "Unknown ProposalAction tag"

\* a proposal account whose action tag is 255 has been refused
C8_Witness ==
  /\ dres.by = "MultisigProposal" /\ acct.type = "MultisigProposal"
  /\ data[82] = 255
  /\ ~dres.res.ok /\ dres.res.err = "Unknown ProposalAction tag"

(***************************************************************************)
(* Instruction builders (src/src/instructions.js)                          *)
(*   A public key is its 32 bytes. `accounts` is a record of the supplied  *)
(*   properties; a property that is not supplied reads as undefined. A     *)
(*   builder returns [ok |-> TRUE, v |-> the TransactionInstruction] or,   *)
(*   when a call in it throws, [ok |-> FALSE, err |-> the error].          *)
(***************************************************************************)
PROGRAM_ID ==
  <<79, 18, 193, 176, 134, 81, 146, 68, 54, 202, 12, 104, 237, 200, 147, 89,
    92, 103, 163, 103, 144, 38, 237, 176, 92, 107, 234, 242, 31, 202, 151, 202>>
SYSTEM_PROGRAM_ID == Zeros(32)
SYSVAR_RENT_PUBKEY ==
  <<6, 167, 213, 23, 25, 44, 92, 81, 33, 140, 201, 76, 61, 74, 241, 127,
    88, 218, 238, 8, 155, 161, 253, 68, 227, 219, 217, 138, 0, 0, 0, 0>>

DISCRIMINATORS ==
  [ INITIALIZE_PROTOCOL |-> <<0>>, CREATE_MARKET |-> <<1>>,
    PLACE_BET |-> <<2>>, RESOLVE_MARKET |-> <<3>>, FINALIZE_MARKET |-> <<4>>,
    CLAIM_WINNINGS |-> <<5>>, VOID_MARKET |-> <<6>>, CLAIM_REFUND |-> <<7>>,
    UPDATE_PROTOCOL_CONFIG |-> <<8>>, CREATE_MULTISIG |-> <<9>>,
    CREATE_PROPOSAL |-> <<10>>, APPROVE_PROPOSAL |-> <<11>>,
    EXECUTE_PROPOSAL |-> <<12>>, HARVEST_WITHHELD_TOKENS |-> <<13>> ]

meta(pubkey, isSigner, isMut) ==
  [pubkey |-> pubkey, isSigner |-> isSigner, isWritable |-> isMut]
ws(pubkey) == meta(pubkey, TRUE, TRUE)
rs(pubkey) == meta(pubkey, TRUE, FALSE)
w(pubkey) == meta(pubkey, FALSE, TRUE)
ro(pubkey) == meta(pubkey, FALSE, FALSE)

\* accounts.name
prop(accounts, name) ==
  IF name \in DOMAIN accounts THEN accounts[name] ELSE Undefined

\* a ?? b
orElse(a, b) == IF a = Null \/ a = Undefined THEN b ELSE a

\* new TransactionInstruction({ programId, keys, data }), programId
\* defaulting to PROGRAM_ID
TransactionInstruction(programId, keys, bytes) ==
  [ok |-> TRUE, v |-> [programId |-> orElse(programId, PROGRAM_ID),
                       keys |-> keys, data |-> bytes]]

\* the instruction whose data is writer.toBuffer(), unless a write threw
built(programId, keys, writer) ==
  IF writer.st = "ok"
    THEN TransactionInstruction(programId, keys, toBuffer(writer))
    ELSE [ok |-> FALSE, err |-> writer.st]

\* writeProposalAction with RemoveSigner written under the tag of AddSigner
writeProposalActionSameTag(writer, action) ==
  CASE action.type = "ResolveMarket" ->
         writeU8(writeU8(writer, 0), action.fields.winningOutcome)
    [] action.type = "VoidMarket" -> writeU8(writer, 1)
    [] action.type = "UpdateDeadline" ->
         writeI64(writeU8(writer, 2), action.fields.newDeadline)
    [] action.type = "UpdateFeeBps" ->
         writeU16(writeU8(writer, 3), action.fields.newFeeBps)
    [] action.type = "AddSigner" ->
         writeFixedBytes(writeU8(writer, 4), action.fields.newSigner)
    [] action.type = "RemoveSigner" ->
         writeFixedBytes(writeU8(writer, 4), action.fields.signer)
    [] action.type = "ChangeThreshold" ->
         writeU8(writeU8(writer, 6), action.fields.newThreshold)
    [] OTHER -> [writer EXCEPT !.st = "Unknown ProposalAction type"]

\* a PublicKey field is written as its toBuffer(), a byte array as it is
writeProposalAction(writer, action) ==
  CASE action.type = "ResolveMarket" ->
         writeU8(writeU8(writer, 0), action.fields.winningOutcome)
    [] action.type = "VoidMarket" -> writeU8(writer, 1)
    [] action.type = "UpdateDeadline" ->
         writeI64(writeU8(writer, 2), action.fields.newDeadline)
    [] action.type = "UpdateFeeBps" ->
         writeU16(writeU8(writer, 3), action.fields.newFeeBps)
    [] action.type = "AddSigner" ->
         writeFixedBytes(writeU8(writer, 4), action.fields.newSigner)
    [] action.type = "RemoveSigner" ->
         writeFixedBytes(writeU8(writer, 5), action.fields.signer)
    [] action.type = "ChangeThreshold" ->
         writeU8(writeU8(writer, 6), action.fields.newThreshold)
    [] OTHER -> [writer EXCEPT !.st = "Unknown ProposalAction type"]

createMarket(accounts, args, programId) ==
  built(programId,
    << w(accounts.market), w(accounts.vault), rs(accounts.authority),
       ws(accounts.payer), w(accounts.protocolConfig),
       ro(SYSTEM_PROGRAM_ID) >>
    \o (IF prop(accounts, "tokenMint") # Undefined
          THEN << ro(accounts.tokenMint), ro(prop(accounts, "vaultAuthority")),
                  w(prop(accounts, "tokenVault")),
                  ro(prop(accounts, "tokenProgram")),
                  ro(orElse(prop(accounts, "rent"), SYSVAR_RENT_PUBKEY)) >>
          ELSE <<>>),
    writeBool(
      writeU8(
        writeOption(
          writeI64(
            writeVec(
              writeString(
                writeString(
                  writeU64(
                    writeFixedBytes(BorshWriter(512),
                                    DISCRIMINATORS.CREATE_MARKET),
                    args.marketId),
                  args.title),
                args.description),
              args.outcomeLabels, "writeString"),
            args.resolutionDeadline),
          orElse(prop(args, "feeBpsOverride"), Null), "writeU16"),
        args.denomination),
      args.authorityIsMultisig))

\* placeBet that writes the amount before the outcome index
placeBetAmountFirst(accounts, args, programId) ==
  built(programId,
    << w(accounts.market), w(accounts.vault), w(accounts.position),
       ws(accounts.bettor), ro(prop(accounts, "protocolConfig")),
       ro(SYSTEM_PROGRAM_ID) >>
    \o (IF prop(accounts, "bettorTokenAccount") # Undefined
          THEN << w(accounts.bettorTokenAccount),
                  w(prop(accounts, "tokenVault")),
                  ro(prop(accounts, "tokenMint")),
                  ro(prop(accounts, "tokenProgram")) >>
          ELSE <<>>),
    writeU8(
      writeU64(writeFixedBytes(BorshWriter(256), DISCRIMINATORS.PLACE_BET),
               args.amount),
      args.outcomeIndex))

placeBet(accounts, args, programId) ==
  built(programId,
    << w(accounts.market), w(accounts.vault), w(accounts.position),
       ws(accounts.bettor), ro(prop(accounts, "protocolConfig")),
       ro(SYSTEM_PROGRAM_ID) >>
    \o (IF prop(accounts, "bettorTokenAccount") # Undefined
          THEN << w(accounts.bettorTokenAccount),
                  w(prop(accounts, "tokenVault")),
                  ro(prop(accounts, "tokenMint")),
                  ro(prop(accounts, "tokenProgram")) >>
          ELSE <<>>),
    writeU64(
      writeU8(writeFixedBytes(BorshWriter(256), DISCRIMINATORS.PLACE_BET),
              args.outcomeIndex),
      args.amount))

\* claimWinnings that puts the token accounts before the system program
claimWinningsSystemLast(accounts, programId) ==
  TransactionInstruction(programId,
    << ro(accounts.market), w(accounts.vault), w(accounts.position),
       ws(accounts.claimant), ro(prop(accounts, "protocolConfig")),
       w(accounts.treasury), w(prop(accounts, "creator")) >>
    \o (IF prop(accounts, "claimantTokenAccount") # Undefined
          THEN << w(accounts.claimantTokenAccount),
                  w(prop(accounts, "treasuryTokenAccount")),
                  w(prop(accounts, "creatorTokenAccount")),
                  w(prop(accounts, "tokenVault")),
                  ro(prop(accounts, "vaultAuthority")),
                  ro(prop(accounts, "tokenMint")),
                  ro(prop(accounts, "tokenProgram")) >>
          ELSE <<>>)
    \o << ro(SYSTEM_PROGRAM_ID) >>,
    DISCRIMINATORS.CLAIM_WINNINGS)

claimWinnings(accounts, programId) ==
  TransactionInstruction(programId,
    << ro(accounts.market), w(accounts.vault), w(accounts.position),
       ws(accounts.claimant), ro(prop(accounts, "protocolConfig")),
       w(accounts.treasury), w(prop(accounts, "creator")), ro(SYSTEM_PROGRAM_ID) >>
    \o (IF prop(accounts, "claimantTokenAccount") # Undefined
          THEN << w(accounts.claimantTokenAccount),
                  w(prop(accounts, "treasuryTokenAccount")),
                  w(prop(accounts, "creatorTokenAccount")),
                  w(prop(accounts, "tokenVault")),
                  ro(prop(accounts, "vaultAuthority")),
                  ro(prop(accounts, "tokenMint")),
                  ro(prop(accounts, "tokenProgram")) >>
          ELSE <<>>),
    DISCRIMINATORS.CLAIM_WINNINGS)

claimRefund(accounts, programId) ==
  TransactionInstruction(programId,
    << ro(accounts.market), w(accounts.vault), w(accounts.position),
       ws(accounts.claimant), ro(SYSTEM_PROGRAM_ID) >>
    \o (IF prop(accounts, "claimantTokenAccount") # Undefined
          THEN << w(accounts.claimantTokenAccount),
                  w(prop(accounts, "tokenVault")),
                  ro(prop(accounts, "vaultAuthority")),
                  ro(prop(accounts, "tokenMint")),
                  ro(prop(accounts, "tokenProgram")) >>
          ELSE <<>>),
    DISCRIMINATORS.CLAIM_REFUND)

createProposal(accounts, args, programId) ==
  built(programId,
    << w(accounts.proposal), w(accounts.multisig), ro(accounts.market),
       ws(accounts.proposer), ro(SYSTEM_PROGRAM_ID) >>,
    writeProposalAction(
      writeFixedBytes(BorshWriter(256), DISCRIMINATORS.CREATE_PROPOSAL),
      args.action))

initializeProtocol(accounts, args, programId) ==
  built(programId,
    << w(accounts.protocolConfig), ws(accounts.admin), ro(accounts.treasury),
       ro(SYSTEM_PROGRAM_ID) >>,
    writeU16(
      writeFixedBytes(BorshWriter(256), DISCRIMINATORS.INITIALIZE_PROTOCOL),
      args.defaultFeeBps))

resolveMarket(accounts, args, programId) ==
  built(programId, << w(accounts.market), rs(accounts.authority) >>,
    writeU8(writeFixedBytes(BorshWriter(256), DISCRIMINATORS.RESOLVE_MARKET),
            args.winningOutcome))

finalizeMarket(accounts, programId) ==
  TransactionInstruction(programId, << w(accounts.market) >>,
                         DISCRIMINATORS.FINALIZE_MARKET)

voidMarket(accounts, programId) ==
  TransactionInstruction(programId,
    << w(accounts.market), rs(accounts.authority) >>,
    DISCRIMINATORS.VOID_MARKET)

updateProtocolConfig(accounts, args, programId) ==
  built(programId, << w(accounts.protocolConfig), rs(accounts.admin) >>,
    writeOption(
      writeOption(
        writeOption(
          writeFixedBytes(BorshWriter(256),
                          DISCRIMINATORS.UPDATE_PROTOCOL_CONFIG),
          orElse(prop(args, "newDefaultFeeBps"), Null), "writeU16"),
        orElse(prop(args, "newTreasury"), Null), "writeFixedBytes"),
      orElse(prop(args, "paused"), Null), "writeBool"))

createMultisig(accounts, args, programId) ==
  built(programId,
    << w(accounts.multisig), ws(accounts.creator), ro(SYSTEM_PROGRAM_ID) >>,
    writeVec(
      writeU8(
        writeU64(
          writeFixedBytes(BorshWriter(256), DISCRIMINATORS.CREATE_MULTISIG),
          args.nonce),
        args.threshold),
      args.signers, "writeFixedBytes"))

approveProposal(accounts, programId) ==
  TransactionInstruction(programId,
    << w(accounts.proposal), ro(accounts.multisig), rs(accounts.signer) >>,
    DISCRIMINATORS.APPROVE_PROPOSAL)

executeProposal(accounts, programId) ==
  TransactionInstruction(programId,
    << w(accounts.proposal), w(accounts.multisig), w(accounts.market) >>,
    DISCRIMINATORS.EXECUTE_PROPOSAL)

harvestWithheldTokens(accounts, programId) ==
  TransactionInstruction(programId,
    << ro(accounts.market), w(accounts.tokenMint), w(accounts.tokenVault),
       w(accounts.destination), rs(accounts.withdrawAuthority),
       ro(accounts.tokenProgram) >>,
    DISCRIMINATORS.HARVEST_WITHHELD_TOKENS)

\* DISCRIMINATORS has no DISPUTE_RESOLVE: the property reads as undefined and
\* writeFixedBytes(undefined) throws a TypeError on data.length
disputeResolve(accounts, args, programId) ==
  IF prop(DISCRIMINATORS, "DISPUTE_RESOLVE") = Undefined
    THEN [ok |-> FALSE, err |-> "TypeError"]
    ELSE built(programId, << w(accounts.market), rs(accounts.authority) >>,
           writeU8(writeFixedBytes(BorshWriter(256),
                                   DISCRIMINATORS.DISPUTE_RESOLVE),
                   args.winningOutcome))

(***************************************************************************)
(* SpecIx: either a builder is called, with native, token or partly        *)
(* supplied account sets, or a ProposalAction is written and decoded again *)
(***************************************************************************)
\* the actions handed to writeProposalAction: each variant with values at
\* both ends of its field's domain, a VoidMarket without `fields`, a value
\* out of its domain and a type that is no variant
ProposalActions ==
  LET one(type, field, v) == [type |-> type, fields |-> (field :> v)]
  IN  {one("ResolveMarket", "winningOutcome", v) : v \in {0, 9, 255, 256}}
      \cup {[type |-> "VoidMarket"], [type |-> "VoidMarket", fields |-> NoFields],
            [type |-> "Bogus", fields |-> NoFields]}
      \cup {one("UpdateDeadline", "newDeadline", v) :
              v \in {Wide(FALSE, 0, 0, 0, 0), Wide(FALSE, 6000, 0, 0, 0),
                     Wide(TRUE, 1, 0, 0, 0),
                     Wide(FALSE, 65535, 65535, 65535, 32767),
                     Wide(TRUE, 0, 0, 0, 32768)}}
      \cup {one("UpdateFeeBps", "newFeeBps", v) : v \in {0, 300, 65535}}
      \cup {one("AddSigner", "newSigner", Key(k)) : k \in {0, 9, 255}}
      \cup {one("RemoveSigner", "signer", Key(k)) : k \in {0, 9, 255}}
      \cup {one("ChangeThreshold", "newThreshold", v) : v \in {0, 3, 255}}

\* the amounts handed to placeBet, with the 8 bytes a u64 of that value has
\* on the wire: 0, 10^9, 2^32, 2^63, 2^64 - 1, and 2^64 and -1, which no
\* u64 holds
Amounts ==
  << [v |-> Wide(FALSE, 0, 0, 0, 0), bytes |-> <<0, 0, 0, 0, 0, 0, 0, 0>>],
     [v |-> Wide(FALSE, 51712, 15258, 0, 0),
      bytes |-> <<0, 202, 154, 59, 0, 0, 0, 0>>],
     [v |-> Wide(FALSE, 0, 0, 1, 0), bytes |-> <<0, 0, 0, 0, 1, 0, 0, 0>>],
     [v |-> Wide(FALSE, 0, 0, 0, 32768),
      bytes |-> <<0, 0, 0, 0, 0, 0, 0, 128>>],
     [v |-> Wide(FALSE, 65535, 65535, 65535, 65535),
      bytes |-> <<255, 255, 255, 255, 255, 255, 255, 255>>],
     [v |-> [neg |-> FALSE, mag |-> <<0, 0, 0, 0, 1>>], bytes |-> <<>>],
     [v |-> Wide(TRUE, 1, 0, 0, 0), bytes |-> <<>>] >>

\* an accounts object: the names of `required`, and of `optional` those in
\* `supplied`, each with a key of its own
AccountsOf(required, optional, supplied) ==
  LET names == required \o optional
  IN  [n \in {names[i] : i \in 1..Len(required)} \cup supplied |->
         Key(CHOOSE i \in DOMAIN names : names[i] = n)]

\* the optional accounts a caller supplies: none, all, all but the first
\* (which the builder tests), only the first, all but the last
Supplied(optional) ==
  LET all == {optional[i] : i \in DOMAIN optional}
  IN  IF optional = <<>> THEN {{}}
      ELSE {{}, all, all \ {optional[1]}, {optional[1]},
            all \ {optional[Len(optional)]}}

\* the accounts of each builder, required and optional ones in the order of
\* their typedef
AccountNames ==
  [ createMarket |->
      [required |-> <<"market", "vault", "authority", "payer",
                      "protocolConfig">>,
       optional |-> <<"tokenMint", "vaultAuthority", "tokenVault",
                      "tokenProgram", "rent">>],
    placeBet |->
      [required |-> <<"market", "vault", "position", "bettor",
                      "protocolConfig">>,
       optional |-> <<"bettorTokenAccount", "tokenVault", "tokenMint",
                      "tokenProgram">>],
    claimWinnings |->
      [required |-> <<"market", "vault", "position", "claimant",
                      "protocolConfig", "treasury", "creator">>,
       optional |-> <<"claimantTokenAccount", "treasuryTokenAccount",
                      "creatorTokenAccount", "tokenVault", "vaultAuthority",
                      "tokenMint", "tokenProgram">>],
    claimRefund |->
      [required |-> <<"market", "vault", "position", "claimant">>,
       optional |-> <<"claimantTokenAccount", "tokenVault", "vaultAuthority",
                      "tokenMint", "tokenProgram">>],
    createProposal |->
      [required |-> <<"proposal", "multisig", "market", "proposer">>,
       optional |-> <<>>],
    initializeProtocol |->
      [required |-> <<"protocolConfig", "admin", "treasury">>,
       optional |-> <<>>],
    resolveMarket |-> [required |-> <<"market", "authority">>,
                       optional |-> <<>>],
    disputeResolve |-> [required |-> <<"market", "authority">>,
                        optional |-> <<>>],
    finalizeMarket |-> [required |-> <<"market">>, optional |-> <<>>],
    voidMarket |-> [required |-> <<"market", "authority">>, optional |-> <<>>],
    updateProtocolConfig |-> [required |-> <<"protocolConfig", "admin">>,
                              optional |-> <<>>],
    createMultisig |-> [required |-> <<"multisig", "creator">>,
                        optional |-> <<>>],
    approveProposal |-> [required |-> <<"proposal", "multisig", "signer">>,
                         optional |-> <<>>],
    executeProposal |-> [required |-> <<"proposal", "multisig", "market">>,
                         optional |-> <<>>],
    harvestWithheldTokens |->
      [required |-> <<"market", "tokenMint", "tokenVault", "destination",
                      "withdrawAuthority", "tokenProgram">>,
       optional |-> <<>>] ]

AccountSets(op) ==
  {AccountsOf(AccountNames[op].required, AccountNames[op].optional, s) :
     s \in Supplied(AccountNames[op].optional)}

\* a text of n times the code point c
Text(n, c) == [i \in 1..n |-> c]

\* the arguments handed to createMarket: two plain ones, then one argument
\* at a time at or past the end of its integer range or declared capacity
CreateMarketArgs ==
  LET plain == [marketId |-> Wide(FALSE, 7, 0, 0, 0),
                title |-> <<84, 233>>, description |-> <<>>,
                outcomeLabels |-> <<<<89>>, <<78, 111>>>>,
                resolutionDeadline |-> Wide(FALSE, 5000, 0, 0, 0),
                denomination |-> 0, authorityIsMultisig |-> FALSE]
      with(field, v) == [f \in DOMAIN plain \cup {field} |->
                          IF f = field THEN v ELSE plain[f]]
  IN  {plain,
       [marketId |-> Wide(FALSE, 65535, 65535, 65535, 65535),
        title |-> <<84>>, description |-> <<100, 100>>,
        outcomeLabels |-> <<>>,
        resolutionDeadline |-> Wide(TRUE, 1, 0, 0, 0),
        feeBpsOverride |-> Some(250),
        denomination |-> 1, authorityIsMultisig |-> TRUE]}
      \cup {with("marketId", v) :
              v \in {[neg |-> FALSE, mag |-> <<0, 0, 0, 0, 1>>],
                     Wide(TRUE, 1, 0, 0, 0)}}
      \cup {with("denomination", v) : v \in {-1, 2, 255, 256}}
      \cup {with("feeBpsOverride", v) :
              v \in {Null, Some(0), Some(65535), Some(65536), Some(-1)}}
      \cup {with("outcomeLabels", [i \in 1..n |-> <<79, 48 + i>>]) :
              n \in {MAX_OUTCOMES, MAX_OUTCOMES + 1}}
      \cup {with("outcomeLabels", <<<<89>>, Text(n, c)>>) :
              n \in {MAX_OUTCOME_LABEL_LEN, MAX_OUTCOME_LABEL_LEN + 1},
              c \in {97}}
      \cup {with("outcomeLabels", <<Text(n, 233), <<78>>>>) :
              n \in {32, 33}}
      \cup {with("title", Text(n, 97)) :
              n \in {MAX_TITLE_LEN, MAX_TITLE_LEN + 1}}
      \cup {with("description", Text(n, 97)) :
              n \in {MAX_DESCRIPTION_LEN, MAX_DESCRIPTION_LEN + 1}}

\* absent, null and present options, the fee at and past the ends of a u16
UpdateProtocolConfigArgs ==
  {[f \in fs |-> CASE f = "newDefaultFeeBps" -> fee
                   [] f = "newTreasury" -> treasury
                   [] f = "paused" -> paused] :
     fs \in SUBSET {"newDefaultFeeBps", "newTreasury", "paused"},
     fee \in {Null, Some(0), Some(65535), Some(65536), Some(-1)},
     treasury \in {Some(Key(5))},
     paused \in {Null, Some(FALSE), Some(TRUE)}}

\* nonce and threshold at and past the ends of their ranges, and 0, 2, 11 and
\* 12 signers
CreateMultisigArgs ==
  {[nonce |-> nonce, threshold |-> 2, signers |-> <<Key(1), Key(2)>>] :
     nonce \in {Wide(FALSE, 0, 0, 0, 0),
                Wide(FALSE, 65535, 65535, 65535, 65535),
                [neg |-> FALSE, mag |-> <<0, 0, 0, 0, 1>>],
                Wide(TRUE, 1, 0, 0, 0)}}
  \cup {[nonce |-> Wide(FALSE, 3, 0, 0, 0), threshold |-> threshold,
         signers |-> <<Key(1), Key(2)>>] : threshold \in {-1, 0, 255, 256}}
  \cup {[nonce |-> Wide(FALSE, 3, 0, 0, 0), threshold |-> 1,
         signers |-> [i \in 1..n |-> Key(i)]] :
         n \in {0, MAX_MULTISIG_SIGNERS, MAX_MULTISIG_SIGNERS + 1}}

\* a builder call that has not returned yet
Call0(op, accounts, args, programId) ==
  [op |-> op, accounts |-> accounts, args |-> args, programId |-> programId,
   res |-> NoIx]

\* either the arguments of one builder call, or an action to write
IxInit ==
  /\ wr = NoWriter /\ rd = NoReader /\ rres = <<>>
  /\ acct = NoDecode /\ data = NoDecode /\ dres = NoDecode
  /\ pda = NoPda /\ cl = NoClient /\ heap = NoHeap
  /\ \/ /\ ix = NoIx
        /\ \E action \in ProposalActions : written = <<action>>
     \/ /\ written = <<>>
        /\ \/ \E accounts \in AccountSets("createMarket"),
                 args \in CreateMarketArgs :
                ix = Call0("createMarket", accounts, args, Undefined)
           \/ \E accounts \in AccountSets("placeBet"),
                 outcomeIndex \in {-1, 0, 1, 255, 256}, i \in DOMAIN Amounts :
                ix = Call0("placeBet", accounts,
                           [outcomeIndex |-> outcomeIndex,
                            amount |-> Amounts[i].v], Undefined)
           \/ \E op \in {"claimWinnings", "claimRefund"}, other \in BOOLEAN :
                \E accounts \in AccountSets(op) :
                  ix = Call0(op, accounts, NoFields,
                             IF other THEN Key(77) ELSE Undefined)
           \/ \E accounts \in AccountSets("createProposal"),
                 action \in ProposalActions :
                ix = Call0("createProposal", accounts, [action |-> action],
                           Undefined)
           \/ \E accounts \in AccountSets("initializeProtocol"),
                 defaultFeeBps \in {-1, 0, 250, 65535, 65536} :
                ix = Call0("initializeProtocol", accounts,
                           [defaultFeeBps |-> defaultFeeBps], Undefined)
           \/ \E op \in {"resolveMarket", "disputeResolve"},
                 winningOutcome \in {-1, 0, 1, 255, 256}, other \in BOOLEAN :
                \E accounts \in AccountSets(op) :
                  ix = Call0(op, accounts, [winningOutcome |-> winningOutcome],
                             IF other THEN Key(77) ELSE Undefined)
           \/ \E op \in {"finalizeMarket", "voidMarket", "approveProposal",
                          "executeProposal", "harvestWithheldTokens"},
                 other \in BOOLEAN :
                \E accounts \in AccountSets(op) :
                  ix = Call0(op, accounts, NoFields,
                             IF other THEN Key(77) ELSE Undefined)
           \/ \E accounts \in AccountSets("updateProtocolConfig"),
                 args \in UpdateProtocolConfigArgs :
                ix = Call0("updateProtocolConfig", accounts, args, Undefined)
           \/ \E accounts \in AccountSets("createMultisig"),
                 args \in CreateMultisigArgs :
                ix = Call0("createMultisig", accounts, args, Undefined)

\* the builder `op` is called with the arguments and returns res
Build(op, res) ==
  /\ ix # NoIx /\ ix.op = op
  /\ ix' = [ix EXCEPT !.res = res]
  /\ UNCHANGED <<wr, written, rd, rres, acct, data, dres, pda, cl, heap>>

CreateMarket ==
  Build("createMarket", createMarket(ix.accounts, ix.args, ix.programId))

PlaceBet == Build("placeBet", placeBet(ix.accounts, ix.args, ix.programId))

ClaimWinnings ==
  Build("claimWinnings", claimWinnings(ix.accounts, ix.programId))

ClaimRefund == Build("claimRefund", claimRefund(ix.accounts, ix.programId))

CreateProposal ==
  Build("createProposal", createProposal(ix.accounts, ix.args, ix.programId))

InitializeProtocol ==
  Build("initializeProtocol",
        initializeProtocol(ix.accounts, ix.args, ix.programId))

ResolveMarket ==
  Build("resolveMarket", resolveMarket(ix.accounts, ix.args, ix.programId))

DisputeResolve ==
  Build("disputeResolve", disputeResolve(ix.accounts, ix.args, ix.programId))

FinalizeMarket ==
  Build("finalizeMarket", finalizeMarket(ix.accounts, ix.programId))

VoidMarket == Build("voidMarket", voidMarket(ix.accounts, ix.programId))

UpdateProtocolConfig ==
  Build("updateProtocolConfig",
        updateProtocolConfig(ix.accounts, ix.args, ix.programId))

CreateMultisig ==
  Build("createMultisig", createMultisig(ix.accounts, ix.args, ix.programId))

ApproveProposal ==
  Build("approveProposal", approveProposal(ix.accounts, ix.programId))

ExecuteProposal ==
  Build("executeProposal", executeProposal(ix.accounts, ix.programId))

HarvestWithheldTokens ==
  Build("harvestWithheldTokens",
        harvestWithheldTokens(ix.accounts, ix.programId))

\* writeProposalAction on a new writer
WriteAction ==
  /\ wr = NoWriter /\ written # <<>>
  /\ wr' = writeProposalAction(BorshWriter(256), written[1])
  /\ UNCHANGED <<written, rd, rres, acct, data, dres, ix, pda, cl, heap>>

\* a call on a new reader has returned x
Returned(x) ==
  /\ rd' = x.r
  /\ rres' = <<[ok |-> x.ok, out |-> IF x.ok THEN x.v ELSE x.err]>>

\* decodeProposalAction on a reader of the bytes written
DecodeAction ==
  /\ wr # NoWriter /\ wr.st = "ok" /\ rd = NoReader
  /\ Returned(decodeProposalAction(BorshReader(toBuffer(wr))))
  /\ UNCHANGED <<wr, written, acct, data, dres, ix, pda, cl, heap>>

IxNext ==
  \/ InitializeProtocol \/ CreateMarket \/ PlaceBet \/ ResolveMarket
  \/ DisputeResolve \/ FinalizeMarket \/ ClaimWinnings \/ VoidMarket
  \/ ClaimRefund \/ UpdateProtocolConfig \/ CreateMultisig
  \/ CreateProposal \/ ApproveProposal \/ ExecuteProposal
  \/ HarvestWithheldTokens \/ WriteAction \/ DecodeAction

SpecIx == IxInit /\ [][IxNext]_vars

\* C7: for each of the 7 Action variants and every field value in its
\* domain, decodeProposalAction on the bytes writeProposalAction wrote gives
\* the same variant (name = the type written, tag = the variant's index),
\* the same field values, and reads exactly the bytes written. (A write
\* fails only for a type that is no variant or a value out of its domain.)
C7_ActionRoundTrip ==
  LET action == written[1]
      fields == IF "fields" \in DOMAIN action THEN action.fields ELSE NoFields
      variants == <<"ResolveMarket", "VoidMarket", "UpdateDeadline",
                    "UpdateFeeBps", "AddSigner", "RemoveSigner",
                    "ChangeThreshold">>
      out == rres[1].out
  IN  /\ (wr # NoWriter /\ wr.st # "ok") =>
           \/ \A i \in DOMAIN variants : variants[i] # action.type
           \/ action.type = "ResolveMarket"
                /\ fields.winningOutcome \notin 0..255
      /\ (rd # NoReader) =>
           /\ rres[1].ok
           /\ out.name = action.type
           /\ out.tag \in 0..6 /\ variants[out.tag + 1] = action.type
           /\ DOMAIN out.fields = DOMAIN fields
           /\ \A k \in DOMAIN fields :
                IF k = "newDeadline" THEN NumEq(out.fields[k], fields[k])
                ELSE out.fields[k] = fields[k]
           /\ rd.buf = toBuffer(wr) /\ rd.offset = Len(rd.buf)

\* UpdateDeadline with the deadline -2^63 has been written and decoded
C7_Witness ==
  /\ rd # NoReader /\ rres[1].ok
  /\ written[1].type = "UpdateDeadline"
  /\ written[1].fields.newDeadline = Wide(TRUE, 0, 0, 0, 32768)
  /\ rres[1].out.tag = 2 /\ rres[1].out.fields.newDeadline.neg
  /\ rd.offset = 9

\* C9: placeBet without bettorTokenAccount, for an outcomeIndex in 0..255 and
\* an amount in 0..2^64-1, returns the payload [2, outcomeIndex, the amount
\* as 8 little-endian bytes] and exactly the 6 native-path accounts: market,
\* vault, position (writable), bettor (writable signer), protocolConfig and
\* the system program (read-only).
C9_PlaceBetNative ==
  (/\ ix # NoIx /\ ix.res # NoIx /\ ix.op = "placeBet"
   /\ "bettorTokenAccount" \notin DOMAIN ix.accounts
   /\ ix.args.outcomeIndex \in 0..255
   /\ ~ix.args.amount.neg /\ Len(ix.args.amount.mag) <= 4) =>
    LET key(name, isSigner, isWritable) ==
          [pubkey |-> ix.accounts[name], isSigner |-> isSigner,
           isWritable |-> isWritable]
    IN  /\ ix.res.ok
        /\ \E i \in DOMAIN Amounts :
             /\ NumEq(Amounts[i].v, ix.args.amount)
             /\ ix.res.v.data =
                  <<2, ix.args.outcomeIndex>> \o Amounts[i].bytes
        /\ Len(ix.res.v.data) = 10
        /\ ix.res.v.keys =
             << key("market", FALSE, TRUE), key("vault", FALSE, TRUE),
                key("position", FALSE, TRUE), key("bettor", TRUE, TRUE),
                key("protocolConfig", FALSE, FALSE),
                [pubkey |-> Zeros(32), isSigner |-> FALSE,
                 isWritable |-> FALSE] >>

\* placeBet({outcomeIndex: 0, amount: 1_000_000_000}) with the five native
\* accounts has returned
C9_Witness ==
  /\ ix # NoIx /\ ix.res # NoIx /\ ix.op = "placeBet" /\ ix.res.ok
  /\ DOMAIN ix.accounts =
       {"market", "vault", "position", "bettor", "protocolConfig"}
  /\ ix.args.outcomeIndex = 0
  /\ ix.res.v.data = <<2, 0, 0, 202, 154, 59, 0, 0, 0, 0>>
  /\ Len(ix.res.v.keys) = 6

\* C10: for createMarket, placeBet, claimWinnings and claimRefund the account
\* list built with the token accounts is the list built from the required
\* accounts alone (same addresses, flags and order) followed by 5, 4, 7 and 5
\* entries; without the account the builder tests, the list is the one built
\* from the required accounts.
C10_TokenSuffix ==
  (/\ ix # NoIx /\ ix.res # NoIx /\ ix.res.ok
   /\ ix.op \in {"createMarket", "placeBet", "claimWinnings", "claimRefund"})
  =>
    LET names == AccountNames[ix.op]
        suffix == [createMarket |-> 5, placeBet |-> 4, claimWinnings |-> 7,
                   claimRefund |-> 5][ix.op]
        plain == [n \in {names.required[i] : i \in DOMAIN names.required} |->
                    ix.accounts[n]]
        base == CASE ix.op = "createMarket" ->
                       createMarket(plain, ix.args, ix.programId).v.keys
                  [] ix.op = "placeBet" ->
                       placeBet(plain, ix.args, ix.programId).v.keys
                  [] ix.op = "claimWinnings" ->
                       claimWinnings(plain, ix.programId).v.keys
                  [] ix.op = "claimRefund" ->
                       claimRefund(plain, ix.programId).v.keys
        keys == ix.res.v.keys
    IN  IF names.optional[1] \in DOMAIN ix.accounts
          THEN /\ Len(keys) = Len(base) + suffix
               /\ SubSeq(keys, 1, Len(base)) = base
          ELSE keys = base

\* claimWinnings with all seven token accounts has returned 8 + 7 entries
C10_Witness ==
  /\ ix # NoIx /\ ix.res # NoIx /\ ix.op = "claimWinnings" /\ ix.res.ok
  /\ \A i \in 1..7 : AccountNames.claimWinnings.optional[i] \in DOMAIN ix.accounts
  /\ Len(ix.res.v.keys) = 15
  /\ ix.res.v.keys[8].pubkey = Zeros(32)
  /\ ix.res.v.keys[9].pubkey = ix.accounts.claimantTokenAccount

\* the ranges of the integer widths of the payload
InU8(v) == v \in 0..255
InU16(v) == v \in 0..65535
InU64(v) == (~v.neg \/ IsZero(v.mag)) /\ \A i \in DOMAIN v.mag : i > 4 => v.mag[i] = 0

\* the call in ix has a numeric argument outside the range of the integer it is
\* written as
OutOfRange ==
  LET a == ix.args
      present(f) == f \in DOMAIN a /\ a[f].t = "val"
  IN  CASE ix.op = "initializeProtocol" -> ~InU16(a.defaultFeeBps)
        [] ix.op = "createMarket" ->
             \/ ~InU64(a.marketId) \/ ~InU8(a.denomination)
             \/ present("feeBpsOverride") /\ ~InU16(a.feeBpsOverride.v)
        [] ix.op = "placeBet" -> ~InU8(a.outcomeIndex) \/ ~InU64(a.amount)
        [] ix.op \in {"resolveMarket", "disputeResolve"} ->
             ~InU8(a.winningOutcome)
        [] ix.op = "updateProtocolConfig" ->
             present("newDefaultFeeBps") /\ ~InU16(a.newDefaultFeeBps.v)
        [] ix.op = "createMultisig" -> ~InU64(a.nonce) \/ ~InU8(a.threshold)
        [] ix.op = "createProposal" ->
             \/ a.action.type = "ResolveMarket"
                  /\ ~InU8(a.action.fields.winningOutcome)
             \/ a.action.type = "UpdateFeeBps"
                  /\ ~InU16(a.action.fields.newFeeBps)
             \/ a.action.type = "ChangeThreshold"
                  /\ ~InU8(a.action.fields.newThreshold)
        [] OTHER -> FALSE

\* the opcode of each operation, as numbered in instructions.js
Opcode ==
  [ initializeProtocol |-> 0, createMarket |-> 1, placeBet |-> 2,
    resolveMarket |-> 3, finalizeMarket |-> 4, claimWinnings |-> 5,
    voidMarket |-> 6, claimRefund |-> 7, updateProtocolConfig |-> 8,
    createMultisig |-> 9, createProposal |-> 10, approveProposal |-> 11,
    executeProposal |-> 12, harvestWithheldTokens |-> 13,
    disputeResolve |-> 14 ]

\* C11: each of the 15 builders, called with arguments in range (and, for
\* createProposal, an action of a known type), returns an instruction whose
\* payload starts with the opcode byte of its operation, and the 15 opcodes
\* are pairwise different.
C11_OpcodePerBuilder ==
  /\ Cardinality(DOMAIN Opcode) = 15
  /\ \A a, b \in DOMAIN Opcode : a # b => Opcode[a] # Opcode[b]
  /\ (/\ ix # NoIx /\ ix.res # NoIx /\ ~OutOfRange
      /\ ix.op = "createProposal" => ix.args.action.type # "Bogus")
     => /\ ix.res.ok
        /\ Len(ix.res.v.data) >= 1
        /\ ix.res.v.data[1] = Opcode[ix.op]

\* C12: a builder called with a numeric argument outside the range of the
\* integer it is written as (u8: outcomeIndex, winningOutcome, threshold,
\* denomination; u16: fee values; u64: marketId, amount, nonce) throws: it
\* returns no instruction, so no wrapped or truncated value reaches a payload.
C12_OutOfRangeThrows ==
  (ix # NoIx /\ ix.res # NoIx /\ OutOfRange) => ~ix.res.ok

\* createMultisig with the threshold 256 has thrown a RangeError, and so has
\* placeBet with the amount 2^64
C12_Witness ==
  /\ ix # NoIx /\ ix.res # NoIx /\ ~ix.res.ok /\ ix.res.err = "RangeError"
  /\ \/ ix.op = "createMultisig" /\ ix.args.threshold = 256
     \/ ix.op = "placeBet" /\ ix.args.outcomeIndex = 0
          /\ ix.args.amount.mag = <<0, 0, 0, 0, 1>>

\* C13: createMarket called with more than 10 outcome labels, a label of more
\* than 64 bytes, a title of more than 128 bytes or a description of more
\* than 512 bytes, and createMultisig called with more than 11 signers, throw
\* instead of returning an instruction.
C13_CapacityRejected ==
  (/\ ix # NoIx /\ ix.res # NoIx
   /\ \/ /\ ix.op = "createMarket"
         /\ \/ Len(ix.args.outcomeLabels) > 10
            \/ \E i \in DOMAIN ix.args.outcomeLabels :
                 Len(Utf8Encode(ix.args.outcomeLabels[i])) > 64
            \/ Len(Utf8Encode(ix.args.title)) > 128
            \/ Len(Utf8Encode(ix.args.description)) > 512
      \/ ix.op = "createMultisig" /\ Len(ix.args.signers) > 11)
  => ~ix.res.ok

(***************************************************************************)
(* Address derivation (pda.js)                                             *)
(*   PublicKey.findProgramAddress belongs to @solana/web3.js, which the    *)
(*   source tree does not contain. It is modelled from the specification:  *)
(*   the bump counts down from 255, each candidate is the hash of          *)
(*   seeds || bump || program id, and the first candidate off the curve is *)
(*   accepted. The hash is kept symbolic (an address is its preimage), and *)
(*   which candidates are on the curve is an oracle drawn at the start:    *)
(*   pda.curve[c] is the set of bumps whose candidate is on the curve, for *)
(*   the seeds of class c. pda.lowest is the last bump the loop tries: 0   *)
(*   in the specification, 1 in a library whose loop stops before 0.       *)
(***************************************************************************)
SEEDS ==
  [ PROTOCOL_CONFIG |-> <<112, 114, 111, 116, 111, 99, 111, 108, 95, 99, 111,
                          110, 102, 105, 103>>,
    MARKET |-> <<109, 97, 114, 107, 101, 116>>,
    VAULT |-> <<118, 97, 117, 108, 116>>,
    VAULT_AUTHORITY |-> <<118, 97, 117, 108, 116, 95, 97, 117, 116, 104, 111,
                          114, 105, 116, 121>>,
    POSITION |-> <<112, 111, 115, 105, 116, 105, 111, 110>>,
    MULTISIG |-> <<109, 117, 108, 116, 105, 115, 105, 103>>,
    PROPOSAL |-> <<112, 114, 111, 112, 111, 115, 97, 108>> ]

\* Buffer.alloc(8) with BigInt(val) written by writeBigUInt64LE, which throws
\* for a value that is no u64
u64ToLeBytes(val) ==
  IF (~val.neg \/ IsZero(val.mag)) /\ FitsLimbs(val.mag, 4)
    THEN [ok |-> TRUE, v |-> LimbBytes(val.mag, 4)]
    ELSE [ok |-> FALSE, err |-> "RangeError"]

\* Buffer.from([val & 0xff]): the low 8 bits of the integer val
u8ToBytes(val) == <<val % 256>>

\* the sum of bytes, which are cut in halves to keep the evaluation shallow
RECURSIVE Sum(_)
Sum(bytes) ==
  IF bytes = <<>> THEN 0
  ELSE IF Len(bytes) = 1 THEN bytes[1]
  ELSE Sum(SubSeq(bytes, 1, Len(bytes) \div 2))
         + Sum(SubSeq(bytes, Len(bytes) \div 2 + 1, Len(bytes)))

\* the class of a seed list, which selects its row of the oracle
CurveClass(seeds) == (Sum(Concat(seeds)) % 2) + 1

\* the candidate address for a bump: the hash of this preimage
createProgramAddress(seeds, bump, programId) ==
  [preimage |-> Concat(seeds) \o <<bump>> \o programId]

\* the loop of findProgramAddress, in runs of at most k candidates: the bump
\* at which the run that starts at `bump` stops, which is the first one that
\* is below the last bump tried or whose candidate is off the curve (onCurve
\* being the bumps whose candidate is on it)
RECURSIVE nextBump(_, _, _)
nextBump(onCurve, bump, k) ==
  IF k = 0 \/ bump < pda.lowest \/ bump \notin onCurve THEN bump
  ELSE nextBump(onCurve, bump - 1, k - 1)

\* the loop from `bump` down, `tried` candidates having been on the curve so
\* far and the run from `bump` having stopped at `stop`
RECURSIVE findFrom(_, _, _, _, _, _)
findFrom(seeds, programId, onCurve, bump, tried, stop) ==
  IF stop < pda.lowest
    THEN [ok |-> FALSE, err |-> "Unable to find a viable program address nonce",
          seeds |-> seeds, attempts |-> tried + (bump - stop)]
  ELSE IF stop \notin onCurve
    THEN [ok |-> TRUE,
          v |-> <<createProgramAddress(seeds, stop, programId), stop>>,
          seeds |-> seeds, attempts |-> tried + (bump - stop) + 1]
  ELSE findFrom(seeds, programId, onCurve, stop, tried + (bump - stop),
                nextBump(onCurve, stop, 16))

\* PublicKey.findProgramAddress(seeds, programId): [address, bump], with the
\* seeds it was given and the number of candidates it hashed
findProgramAddress(seeds, programId) ==
  findFrom(seeds, orElse(programId, PROGRAM_ID), pda.curve[CurveClass(seeds)],
           255, 0, nextBump(pda.curve[CurveClass(seeds)], 255, 16))

\* findMarketAddress with the market id as the only seed after the tag
findMarketAddressNoAuthority(authority, marketId, programId) ==
  IF ~u64ToLeBytes(marketId).ok
    THEN [ok |-> FALSE, err |-> u64ToLeBytes(marketId).err, seeds |-> <<>>,
          attempts |-> 0]
    ELSE findProgramAddress(<<SEEDS.MARKET, u64ToLeBytes(marketId).v>>,
                            programId)

\* seeds: ["market", authority, market_id_le]; u64ToLeBytes throws before the
\* derivation starts
findMarketAddress(authority, marketId, programId) ==
  IF ~u64ToLeBytes(marketId).ok
    THEN [ok |-> FALSE, err |-> u64ToLeBytes(marketId).err, seeds |-> <<>>,
          attempts |-> 0]
    ELSE findProgramAddress(
           <<SEEDS.MARKET, authority, u64ToLeBytes(marketId).v>>, programId)

\* seeds: ["position", market, owner, outcome_index]
findPositionAddress(market, owner, outcomeIndex, programId) ==
  findProgramAddress(
    <<SEEDS.POSITION, market, owner, u8ToBytes(outcomeIndex)>>, programId)

(***************************************************************************)
(* SpecPda: two derivations, one after the other, under one oracle         *)
(***************************************************************************)
\* the oracles: no candidate on the curve, the first one, the first three,
\* all but the one of bump 0, all; the same for both classes or not
Curves ==
  {<<c, c>> : c \in {{}, {255}, {253, 254, 255}, 1..255, 0..255}}
  \cup {<<{}, {255}>>, <<{254, 255}, 0..255>>}

\* the derivations called: positions of two markets, two owners and outcome
\* indexes in and out of 0..255, markets of two authorities and ids in and
\* out of the u64 range
PdaCalls ==
  {[fn |-> "findPositionAddress", args |-> <<Key(m), Key(o), i>>] :
     m \in {1, 2}, o \in {1, 3}, i \in {-1, 0, 255, 256}}
  \cup {[fn |-> "findMarketAddress", args |-> <<Key(a), id>>] :
          a \in {1, 2},
          id \in {Wide(FALSE, 0, 0, 0, 0), Wide(FALSE, 7, 0, 0, 0),
                  Wide(FALSE, 65535, 65535, 65535, 65535),
                  [neg |-> FALSE, mag |-> <<0, 0, 0, 0, 1>>]}}

PdaInit ==
  /\ wr = NoWriter /\ written = <<>> /\ rd = NoReader /\ rres = <<>>
  /\ acct = NoDecode /\ data = NoDecode /\ dres = NoDecode /\ ix = NoIx
  /\ cl = NoClient /\ heap = NoHeap
  /\ \E curve \in Curves, lowest \in {0, 1}, first \in PdaCalls,
        second \in PdaCalls :
       pda = [curve |-> curve, lowest |-> lowest, todo |-> <<first, second>>,
              calls |-> <<>>]

\* the next derivation is called and has returned res
Derive(fn, res) ==
  /\ pda # NoPda /\ pda.todo # <<>> /\ pda.todo[1].fn = fn
  /\ pda' = [pda EXCEPT !.todo = Tail(@),
                        !.calls = Append(@, [fn |-> fn,
                                             args |-> pda.todo[1].args,
                                             res |-> res])]
  /\ UNCHANGED <<wr, written, rd, rres, acct, data, dres, ix, cl, heap>>

FindMarketAddress ==
  Derive("findMarketAddress",
         findMarketAddress(pda.todo[1].args[1], pda.todo[1].args[2],
                           Undefined))

FindPositionAddress ==
  Derive("findPositionAddress",
         findPositionAddress(pda.todo[1].args[1], pda.todo[1].args[2],
                             pda.todo[1].args[3], Undefined))

PdaNext == FindMarketAddress \/ FindPositionAddress

SpecPda == PdaInit /\ [][PdaNext]_vars

\* C14: of two findPositionAddress calls, those with the same (market, owner,
\* outcomeIndex) derive from the same seed list and those whose arguments
\* differ derive from different seed lists.
C14_OnePositionPerTriple ==
  \A i, j \in DOMAIN pda.calls :
    (pda.calls[i].fn = "findPositionAddress"
       /\ pda.calls[j].fn = "findPositionAddress")
    => ((pda.calls[i].args = pda.calls[j].args)
          <=> (pda.calls[i].res.seeds = pda.calls[j].res.seeds))

\* C15: findMarketAddress(authority, marketId), for a marketId that is a
\* u64, derives from the seeds ["market", authority, marketId as 8
\* little-endian bytes] and the program id alone: two calls with the same
\* arguments return the same result; a call that returns gives the candidate
\* of a bump that is off the curve, every larger bump up to 255 being on it;
\* when every bump in 0..255 is on the curve the call fails; and no call
\* hashes more than 256 candidates.
C15_DerivationBump ==
  LET le8 == [id \in {0, 7, 65535} |->
                IF id = 65535 THEN [i \in 1..8 |-> 255]
                ELSE <<id, 0, 0, 0, 0, 0, 0, 0>>]
  IN  \A i \in DOMAIN pda.calls :
        LET c == pda.calls[i]
            seeds == <<SEEDS.MARKET, c.args[1], le8[c.args[2].mag[1]]>>
            on == pda.curve[CurveClass(seeds)]
        IN  (c.fn = "findMarketAddress" /\ InU64(c.args[2])) =>
              /\ \A j \in DOMAIN pda.calls :
                   (pda.calls[j].fn = c.fn /\ pda.calls[j].args = c.args)
                     => pda.calls[j].res = c.res
              /\ c.res.attempts <= 256
              /\ c.res.ok =>
                   /\ c.res.v[2] \in 0..255 /\ c.res.v[2] \notin on
                   /\ \A b \in (c.res.v[2] + 1)..255 : b \in on
                   /\ c.res.v[1] =
                        [preimage |-> SEEDS.MARKET \o c.args[1]
                                      \o le8[c.args[2].mag[1]]
                                      \o <<c.res.v[2]>> \o PROGRAM_ID]
                   /\ c.res.attempts = 256 - c.res.v[2]
              /\ (\A b \in 0..255 : b \in on) => ~c.res.ok

\* findMarketAddress has been called twice with the same authority and the
\* market id 7 and has returned the bump 252 twice, the candidates of 255,
\* 254 and 253 being on the curve
C15_Witness ==
  /\ pda # NoPda /\ Len(pda.calls) = 2
  /\ \A i \in 1..2 :
       /\ pda.calls[i].fn = "findMarketAddress"
       /\ pda.calls[i].args[2] = Wide(FALSE, 7, 0, 0, 0)
       /\ pda.calls[i].res.ok /\ pda.calls[i].res.v[2] = 252
       /\ pda.calls[i].res.attempts = 4
  /\ pda.calls[1].args = pda.calls[2].args

\* C20: decodeMarket reads every legacy Market account whose old-layout
\* title length is in 1..128 under the old layout (all-zero creator,
\* creatorFeeBps 0, texts at the old-layout offsets), whatever its
\* description and label bytes are, and every new-layout account with a
\* nonzero title length under the new layout (stored creator and
\* creatorFeeBps, texts at the new-layout offsets).
C20_ProbePicksLayout ==
  (dres.by = "Market" /\ acct.type = "Market"
     /\ acct.layout \in {"old", "new"}) =>
    LET n == data[79]
        legacy == /\ acct.layout = "old"
                  /\ U16At(data, 348) \in 1..MAX_TITLE_LEN
        current == acct.layout = "new" /\ U16At(data, 382) # 0
        m == dres.res.v
    IN  /\ (legacy /\ n <= MAX_OUTCOMES) =>
             /\ dres.res.ok
             /\ m.creator = Zeros(32) /\ m.creatorFeeBps = 0
             /\ TextOf(m) = TextAt(data, 220, n)
        /\ (current /\ n <= MAX_OUTCOMES) =>
             /\ dres.res.ok
             /\ m.creator = subarray(data, 220, 252)
             /\ m.creatorFeeBps = U16At(data, 252)
             /\ TextOf(m) = TextAt(data, 254, n)

\* ---------------------------------------------------------------------
\* client.js: the bulk scans. connection.getProgramAccounts is the RPC
\* node's: it rejects, or resolves to a list of { pubkey, account } that
\* the node chose. cl holds one call: the method, what the node does, and
\* the result once the method has run.

\* the longest list the node returns
MaxScan == 2

\* the decoder each scan applies to account.data
ScanDecoder ==
  [getAllMarkets |-> "Market", getPositionsByOwner |-> "UserPosition",
   getPositionsByMarket |-> "UserPosition",
   getProposalsByMultisig |-> "MultisigProposal"]

decodeWith(by, bytes) ==
  CASE by = "Market" -> decodeMarket(bytes)
    [] by = "UserPosition" -> decodeUserPosition(bytes)
    [] by = "MultisigProposal" -> decodeMultisigProposal(bytes)

\* try { results.push({ pubkey, account: decoded }) } catch { }, decoded
\* being what the decoder returned or threw
push(results, pubkey, decoded) ==
  IF decoded.ok
    THEN [ok |-> TRUE,
          v |-> Append(results, [pubkey |-> pubkey, account |-> decoded.v])]
    ELSE [ok |-> TRUE, v |-> results]

\* the same with no try around the decoder: what it throws leaves the loop
pushNoCatch(results, pubkey, decoded) ==
  IF decoded.ok
    THEN [ok |-> TRUE,
          v |-> Append(results, [pubkey |-> pubkey, account |-> decoded.v])]
    ELSE [ok |-> FALSE, err |-> decoded.err]

\* the loop from the account after the one that gave `pushed`
RECURSIVE scanNoCatch(_, _, _)
scanNoCatch(by, accounts, pushed) ==
  IF accounts = <<>> \/ ~pushed.ok THEN pushed
  ELSE scanNoCatch(by, Tail(accounts),
         pushNoCatch(pushed.v, Head(accounts).pubkey,
                     decodeWith(by, Head(accounts).account.data)))

\* for (const { pubkey, account } of accounts) { try { ... } catch { } }
\* return results
RECURSIVE scan(_, _, _)
scan(by, accounts, pushed) ==
  IF accounts = <<>> \/ ~pushed.ok THEN pushed
  ELSE scan(by, Tail(accounts),
         push(pushed.v, Head(accounts).pubkey,
              decodeWith(by, Head(accounts).account.data)))

\* await this.connection.getProgramAccounts(...) and the loop
getProgramAccountsThenScan(by, rpc) ==
  IF ~rpc.ok THEN [ok |-> FALSE, err |-> "rpc"]
  ELSE scan(by, rpc.v, [ok |-> TRUE, v |-> <<>>])

getAllMarkets(rpc) == getProgramAccountsThenScan("Market", rpc)
getPositionsByOwner(rpc) == getProgramAccountsThenScan("UserPosition", rpc)
getPositionsByMarket(rpc) == getProgramAccountsThenScan("UserPosition", rpc)
getProposalsByMultisig(rpc) ==
  getProgramAccountsThenScan("MultisigProposal", rpc)

\* account data a node can return: Markets of both layouts that decode, a
\* legacy Market and an 11-outcome Market that do not, a cut Market, a
\* UserPosition, a proposal that decodes and one with an unknown action tag
ScanData ==
  {MarketImage("new", <<84>>, <<>>, 3),
   MarketImage("old", <<84, 195, 169>>, [i \in 1..10 |-> 100], 3),
   MarketImage("old", <<84>>, [i \in 1..40 |-> 100], 3),
   MarketImage("new", <<84>>, <<>>, 11),
   subarray(MarketImage("new", <<84>>, <<>>, 3), 0, 7),
   PositionImage, ProposalImage(0), ProposalImage(128)}

ScanAddresses == {Key(1), Key(2)}

ProgramAccounts ==
  {[pubkey |-> k, account |-> [data |-> d]] :
     k \in ScanAddresses, d \in ScanData}

ScanInit ==
  /\ wr = NoWriter /\ written = <<>> /\ rd = NoReader /\ rres = <<>>
  /\ acct = NoDecode /\ data = NoDecode /\ dres = NoDecode
  /\ ix = NoIx /\ pda = NoPda /\ heap = NoHeap
  /\ \E op \in DOMAIN ScanDecoder :
       \/ cl = [op |-> op, rpc |-> [ok |-> FALSE], res |-> NoClient]
       \/ \E n \in 0..MaxScan : \E l \in [1..n -> ProgramAccounts] :
            cl = [op |-> op, rpc |-> [ok |-> TRUE, v |-> l], res |-> NoClient]

\* one call of a scan method
Scan(op, res) ==
  /\ cl # NoClient /\ cl.op = op /\ cl.res = NoClient
  /\ cl' = [cl EXCEPT !.res = res]
  /\ UNCHANGED <<wr, written, rd, rres, acct, data, dres, ix, pda, heap>>

GetAllMarkets == Scan("getAllMarkets", getAllMarkets(cl.rpc))
GetPositionsByOwner == Scan("getPositionsByOwner", getPositionsByOwner(cl.rpc))
GetPositionsByMarket ==
  Scan("getPositionsByMarket", getPositionsByMarket(cl.rpc))
GetProposalsByMultisig ==
  Scan("getProposalsByMultisig", getProposalsByMultisig(cl.rpc))

ScanNext ==
  \/ GetAllMarkets \/ GetPositionsByOwner
  \/ GetPositionsByMarket \/ GetProposalsByMultisig

SpecScan == ScanInit /\ [][ScanNext]_vars

\* the places in `accounts` of the accounts that decoder `by` decodes
Decodable(by, accounts) ==
  {i \in DOMAIN accounts : decodeWith(by, accounts[i].account.data).ok}

\* the k-th smallest member of `good`
Nth(good, k) ==
  CHOOSE i \in good : Cardinality({j \in good : j <= i}) = k

\* `results` is the accounts at the places `good`, in order, each decoded
\* and with its own address
Scanned(by, accounts, good, results) ==
  /\ Len(results) = Cardinality(good)
  /\ \A k \in DOMAIN results :
       /\ results[k].pubkey = accounts[Nth(good, k)].pubkey
       /\ results[k].account =
            decodeWith(by, accounts[Nth(good, k)].account.data).v

\* C16: a bulk scan whose getProgramAccounts call resolved returns, whatever
\* the returned accounts are: its result is the list of the returned
\* accounts that its decoder decodes, in the order returned, each as
\* { pubkey: its own address, account: its decoded record }; an account the
\* decoder throws on is not in the result.
C16_ScanSkipsUndecodable ==
  (cl # NoClient /\ cl.res # NoClient /\ cl.rpc.ok) =>
    /\ cl.res.ok
    /\ Scanned(ScanDecoder[cl.op], cl.rpc.v,
               Decodable(ScanDecoder[cl.op], cl.rpc.v), cl.res.v)

\* getAllMarkets was handed a legacy Market that decodeMarket throws on at
\* address 1, then a Market that decodes at address 2, and returned the
\* second alone
C16_Witness ==
  /\ cl # NoClient /\ cl.res # NoClient /\ cl.op = "getAllMarkets"
  /\ cl.rpc.ok /\ Len(cl.rpc.v) = 2
  /\ cl.rpc.v[1].pubkey = Key(1)
  /\ ~decodeMarket(cl.rpc.v[1].account.data).ok
  /\ cl.res.ok /\ Len(cl.res.v) = 1
  /\ cl.res.v[1].pubkey = Key(2)
  /\ cl.res.v[1].account.title = <<84>>

\* ---------------------------------------------------------------------
\* client.js: calculatePayout. A bigint is an integer here, kept small
\* enough for every product below to fit the checker's integers; a Number
\* is a fraction n/d, a whole number when d = 1.

Abs(a) == IF a < 0 THEN 0 - a ELSE a

\* the quotient rounded away from zero
bigintDivUp(a, b) ==
  IF (a < 0) = (b < 0) THEN (Abs(a) + Abs(b) - 1) \div Abs(b)
  ELSE 0 - ((Abs(a) + Abs(b) - 1) \div Abs(b))

\* a / b on bigints, b not 0: the quotient truncated toward zero
bigintDiv(a, b) ==
  IF (a < 0) = (b < 0) THEN Abs(a) \div Abs(b)
  ELSE 0 - (Abs(a) \div Abs(b))

\* BigInt(x) of a Number: a RangeError unless x is a whole number
BigInt(x) ==
  IF x.d = 1 THEN [ok |-> TRUE, v |-> x.n]
  ELSE [ok |-> FALSE, err |-> "RangeError"]

\* the fee taken from the exact quotient instead of the truncated gross
calculatePayoutExactFee(positionAmount, winningPool, totalPool, feeBps) ==
  IF winningPool = 0
    THEN [ok |-> FALSE, err |-> "Division by zero: winning pool is empty"]
  ELSE IF ~BigInt(feeBps).ok THEN [ok |-> FALSE, err |-> BigInt(feeBps).err]
  ELSE LET gross == bigintDiv(positionAmount * totalPool, winningPool)
           fee == bigintDiv(positionAmount * totalPool * BigInt(feeBps).v,
                            winningPool * 10000)
       IN  [ok |-> TRUE, v |-> [gross |-> gross, fee |-> fee,
                                net |-> gross - fee]]

calculatePayout(positionAmount, winningPool, totalPool, feeBps) ==
  IF winningPool = 0
    THEN [ok |-> FALSE, err |-> "Division by zero: winning pool is empty"]
  ELSE IF ~BigInt(feeBps).ok THEN [ok |-> FALSE, err |-> BigInt(feeBps).err]
  ELSE LET gross == bigintDiv(positionAmount * totalPool, winningPool)
           fee == bigintDiv(gross * BigInt(feeBps).v, 10000)
       IN  [ok |-> TRUE, v |-> [gross |-> gross, fee |-> fee,
                                net |-> gross - fee]]

\* amounts are u64 lamports or token units, feeBps a u16 number of basis
\* points (above 10000 included)
PositionAmounts == {0, 1, 2, 7, 1000}
WinningPools == {0, 1, 2, 3, 1000}
TotalPools == {0, 1, 3, 10, 30}
FeeRates == {[n |-> k, d |-> 1] : k \in {0, 1, 250, 9999, 10000, 10001, 65535}}

PayoutInit ==
  /\ wr = NoWriter /\ written = <<>> /\ rd = NoReader /\ rres = <<>>
  /\ acct = NoDecode /\ data = NoDecode /\ dres = NoDecode
  /\ ix = NoIx /\ pda = NoPda /\ heap = NoHeap
  /\ \E amount \in PositionAmounts, winning \in WinningPools,
        total \in TotalPools, rate \in FeeRates :
       cl = [op |-> "calculatePayout", positionAmount |-> amount,
             winningPool |-> winning, totalPool |-> total, feeBps |-> rate,
             res |-> NoClient]

CalculatePayout ==
  /\ cl # NoClient /\ cl.op = "calculatePayout" /\ cl.res = NoClient
  /\ cl' = [cl EXCEPT !.res = calculatePayout(cl.positionAmount,
                                cl.winningPool, cl.totalPool, cl.feeBps)]
  /\ UNCHANGED <<wr, written, rd, rres, acct, data, dres, ix, pda, heap>>

PayoutNext == CalculatePayout

SpecPayout == PayoutInit /\ [][PayoutNext]_vars

\* q is a / b rounded down, for b > 0
IsFloor(a, b, q) == \E r \in 0..(b - 1) : a = q * b + r

\* C19: calculatePayout fails with the division-by-zero error when
\* winningPool is 0 and otherwise returns
\* gross = floor(positionAmount * totalPool / winningPool),
\* fee = floor(gross * feeBps / 10000) and net = gross - fee, so that
\* gross = fee + net, and 0 <= net <= gross when 0 <= feeBps <= 10000.
C19_PayoutFloor ==
  (cl # NoClient /\ cl.op = "calculatePayout" /\ cl.res # NoClient) =>
    IF cl.winningPool = 0
      THEN ~cl.res.ok
           /\ cl.res.err = "Division by zero: winning pool is empty"
      ELSE /\ cl.res.ok
           /\ IsFloor(cl.positionAmount * cl.totalPool, cl.winningPool,
                      cl.res.v.gross)
           /\ IsFloor(cl.res.v.gross * cl.feeBps.n, 10000, cl.res.v.fee)
           /\ cl.res.v.net = cl.res.v.gross - cl.res.v.fee
           /\ cl.res.v.gross = cl.res.v.fee + cl.res.v.net
           /\ (0 <= cl.feeBps.n /\ cl.feeBps.n <= 10000) =>
                (0 <= cl.res.v.net /\ cl.res.v.net <= cl.res.v.gross)

\* calculatePayout(7, 2, 3, 9999) has returned gross 10, fee 9, net 1
C19_Witness ==
  /\ cl # NoClient /\ cl.op = "calculatePayout" /\ cl.res # NoClient
  /\ cl.positionAmount = 7 /\ cl.winningPool = 2 /\ cl.totalPool = 3
  /\ cl.feeBps = [n |-> 9999, d |-> 1]
  /\ cl.res.ok
  /\ cl.res.v = [gross |-> 10, fee |-> 9, net |-> 1]

\* ---------------------------------------------------------------------
\* client.js: fee estimation and smart sending. An async method runs up to
\* its next await in one step; what the connection and the fee endpoint
\* answer is the environment's choice. cl holds one call: its arguments,
\* where the call and its two estimate tasks stand, the Promise.all of the
\* tasks, the order in which the tasks settled, the estimate returned to
\* sendSmartTransaction, whether the transaction was signed, and every
\* connection.sendRawTransaction call made.

InstructionLists ==
  {<<[type |-> "ixA"]>>, <<[type |-> "ixA"], [type |-> "ixB"]>>,
   <<[type |-> "ixB"], [type |-> "ixA"]>>}
SignerLists == {<<>>, <<"payer">>, <<"payer", "cosigner">>}
CallOptions ==
  {Undefined, [commitment |-> "finalized"], [skipPreflight |-> FALSE],
   [maxRetries |-> 3], [skipPreflight |-> FALSE, maxRetries |-> 3],
   [skipPreflight |-> TRUE, maxRetries |-> 0]}

\* opts?.name ?? default
option(opts, name, default) ==
  IF opts = Undefined THEN default
  ELSE IF name \in DOMAIN opts THEN opts[name] ELSE default

Pending(at) == [pc |-> at]
Rejected(err) == [pc |-> "err", err |-> err]
Fulfilled(v) == [pc |-> "ok", v |-> v]

\* what simulateTransaction answers: a rejection, or sim.value with err
\* set, or with unitsConsumed given or missing
Simulations ==
  {[rejected |-> TRUE],
   [rejected |-> FALSE, err |-> TRUE, unitsConsumed |-> Undefined],
   [rejected |-> FALSE, err |-> FALSE, unitsConsumed |-> Undefined],
   [rejected |-> FALSE, err |-> FALSE, unitsConsumed |-> Some(5000)]}

\* what the fee endpoint's JSON is: an error, a result with or without
\* priorityFeeEstimate, or neither
FeeResponses ==
  {[error |-> TRUE, result |-> Undefined],
   [error |-> FALSE, result |-> Undefined],
   [error |-> FALSE, result |-> [priorityFeeEstimate |-> Undefined]],
   [error |-> FALSE, result |-> [priorityFeeEstimate |-> Some(1200)]]}

\* estimateComputeUnits after await simulateTransaction; Math.ceil(consumed
\* * margin) is kept as the pair it is computed from
estimateComputeUnits(sim, opts) ==
  IF sim.rejected THEN Rejected("simulateTransaction")
  ELSE IF sim.err THEN Rejected("Simulation failed")
  ELSE LET consumed == IF sim.unitsConsumed = Undefined THEN 200000
                       ELSE sim.unitsConsumed.v
           estimatedUnits ==
             [ceil |-> consumed,
              margin |-> option(opts, "computeUnitMargin", "1.1")]
       IN  Fulfilled([estimatedUnits |-> estimatedUnits,
                      instruction |-> [type |-> "setComputeUnitLimit",
                                       units |-> estimatedUnits]])

\* estimatePriorityFee after await response.json()
estimatePriorityFee(json) ==
  IF json.error THEN Rejected("Priority fee estimation failed")
  ELSE IF json.result = Undefined THEN Rejected("TypeError")
  ELSE LET priorityFee ==
             IF json.result.priorityFeeEstimate = Undefined THEN 0
             ELSE json.result.priorityFeeEstimate.v
       IN  Fulfilled([priorityFee |-> priorityFee,
                      instruction |-> [type |-> "setComputeUnitPrice",
                                       microLamports |-> priorityFee]])

\* Promise.all([cu, fee]) once a task has moved: rejected with the first
\* rejection, fulfilled when both tasks are
promiseAll(all, cu, fee) ==
  IF all.pc # "pending" THEN all
  ELSE IF cu.pc = "err" THEN Rejected(cu.err)
  ELSE IF fee.pc = "err" THEN Rejected(fee.err)
  ELSE IF cu.pc = "ok" /\ fee.pc = "ok" THEN Fulfilled(<<cu.v, fee.v>>)
  ELSE all

\* the price instruction put before the limit instruction
estimateTransactionFeesPriceFirst(cuResult, feeResult, instructions) ==
  [estimatedUnits |-> cuResult.estimatedUnits,
   priorityFee |-> feeResult.priorityFee,
   computeUnitInstruction |-> cuResult.instruction,
   priorityFeeInstruction |-> feeResult.instruction,
   instructions |-> <<feeResult.instruction, cuResult.instruction>>
                    \o instructions]

\* estimateTransactionFees after await Promise.all
estimateTransactionFees(cuResult, feeResult, instructions) ==
  [estimatedUnits |-> cuResult.estimatedUnits,
   priorityFee |-> feeResult.priorityFee,
   computeUnitInstruction |-> cuResult.instruction,
   priorityFeeInstruction |-> feeResult.instruction,
   instructions |-> <<cuResult.instruction, feeResult.instruction>>
                    \o instructions]

\* preflight left on unless the caller turns it off
sendRawTransactionPreflight(transaction, opts) ==
  [rawTx |-> transaction,
   skipPreflight |-> option(opts, "skipPreflight", FALSE),
   maxRetries |-> option(opts, "maxRetries", 0),
   preflightCommitment |-> option(opts, "preflightCommitment", "confirmed")]

\* sendRawTransaction: the call it makes on the connection
sendRawTransaction(transaction, opts) ==
  [rawTx |-> transaction,
   skipPreflight |-> option(opts, "skipPreflight", TRUE),
   maxRetries |-> option(opts, "maxRetries", 0),
   preflightCommitment |-> option(opts, "preflightCommitment", "confirmed")]

SmartInit ==
  /\ wr = NoWriter /\ written = <<>> /\ rd = NoReader /\ rres = <<>>
  /\ acct = NoDecode /\ data = NoDecode /\ dres = NoDecode
  /\ ix = NoIx /\ pda = NoPda /\ heap = NoHeap
  /\ \E op \in {"estimateTransactionFees", "sendSmartTransaction"},
        instructions \in InstructionLists, signers \in SignerLists,
        opts \in CallOptions :
       cl = [op |-> op, instructions |-> instructions, signers |-> signers,
             opts |-> opts, pc |-> "idle", cu |-> Pending("idle"),
             fee |-> Pending("idle"), all |-> Pending("pending"),
             order |-> <<>>, fees |-> NoClient, signed |-> FALSE,
             sent |-> <<>>, res |-> NoClient]

\* both estimates are called, each runs up to its await getLatestBlockhash,
\* and the caller awaits Promise.all
StartEstimates(c) ==
  [c EXCEPT !.pc = "estimating", !.cu = Pending("blockhash"),
            !.fee = Pending("blockhash")]

\* a task has moved to `task`
Moved(name, task) ==
  LET c == [cl EXCEPT ![name] = task]
  IN  cl' = [c EXCEPT !.all = promiseAll(cl.all, c.cu, c.fee),
                      !.order = IF task.pc \in {"ok", "err"}
                                  THEN Append(cl.order, name) ELSE cl.order]

Rest == <<wr, written, rd, rres, acct, data, dres, ix, pda, heap>>

\* the call of estimateTransactionFees
EstimateTransactionFees ==
  /\ cl # NoClient /\ cl.op = "estimateTransactionFees" /\ cl.pc = "idle"
  /\ cl' = StartEstimates(cl)
  /\ UNCHANGED Rest

\* the call of sendSmartTransaction: signers[0].publicKey, then
\* estimateTransactionFees
SendSmartTransaction ==
  /\ cl # NoClient /\ cl.op = "sendSmartTransaction" /\ cl.pc = "idle"
  /\ cl' = IF cl.signers = <<>>
             THEN [cl EXCEPT !.pc = "done", !.res = Rejected("TypeError")]
             ELSE StartEstimates(cl)
  /\ UNCHANGED Rest

\* estimateComputeUnits: getLatestBlockhash has answered
CuBlockhash ==
  /\ cl # NoClient /\ cl.cu.pc = "blockhash"
  /\ \/ Moved("cu", Pending("simulate"))
     \/ Moved("cu", Rejected("getLatestBlockhash"))
  /\ UNCHANGED Rest

\* estimateComputeUnits: simulateTransaction has answered
CuSimulated ==
  /\ cl # NoClient /\ cl.cu.pc = "simulate"
  /\ \E sim \in Simulations : Moved("cu", estimateComputeUnits(sim, cl.opts))
  /\ UNCHANGED Rest

\* estimatePriorityFee: getLatestBlockhash has answered
FeeBlockhash ==
  /\ cl # NoClient /\ cl.fee.pc = "blockhash"
  /\ \/ Moved("fee", Pending("fetch"))
     \/ Moved("fee", Rejected("getLatestBlockhash"))
  /\ UNCHANGED Rest

\* estimatePriorityFee: fetch has answered
FeeFetched ==
  /\ cl # NoClient /\ cl.fee.pc = "fetch"
  /\ \/ Moved("fee", Pending("json"))
     \/ Moved("fee", Rejected("fetch"))
  /\ UNCHANGED Rest

\* estimatePriorityFee: response.json() has answered
FeeParsed ==
  /\ cl # NoClient /\ cl.fee.pc = "json"
  /\ \/ \E json \in FeeResponses : Moved("fee", estimatePriorityFee(json))
     \/ Moved("fee", Rejected("json"))
  /\ UNCHANGED Rest

\* Promise.all has settled: estimateTransactionFees returns or throws; on
\* its return sendSmartTransaction builds the transaction and awaits
\* getLatestBlockhash
FeesSettled ==
  /\ cl # NoClient /\ cl.pc = "estimating" /\ cl.all.pc # "pending"
  /\ cl' =
       IF cl.all.pc = "err"
         THEN [cl EXCEPT !.pc = "done", !.res = Rejected(cl.all.err)]
       ELSE IF cl.op = "estimateTransactionFees"
         THEN [cl EXCEPT !.pc = "done",
                 !.res = Fulfilled(estimateTransactionFees(cl.all.v[1],
                                     cl.all.v[2], cl.instructions))]
       ELSE [cl EXCEPT !.pc = "blockhash",
               !.fees = estimateTransactionFees(cl.all.v[1], cl.all.v[2],
                                                cl.instructions)]
  /\ UNCHANGED Rest

\* sendSmartTransaction: getLatestBlockhash has answered; tx.sign, then
\* sendRawTransaction serializes and calls the connection
SmartBlockhash ==
  /\ cl # NoClient /\ cl.pc = "blockhash"
  /\ \/ cl' = [cl EXCEPT !.pc = "done",
                         !.res = Rejected("getLatestBlockhash")]
     \/ cl' = [cl EXCEPT !.pc = "sending", !.signed = TRUE,
                 !.sent = Append(cl.sent,
                            sendRawTransaction(
                              [instructions |-> cl.fees.instructions,
                               feePayer |-> cl.signers[1],
                               signers |-> cl.signers], cl.opts))]
  /\ UNCHANGED Rest

\* sendSmartTransaction: connection.sendRawTransaction has answered
SmartSent ==
  /\ cl # NoClient /\ cl.pc = "sending"
  /\ \/ cl' = [cl EXCEPT !.pc = "done", !.res = Rejected("sendRawTransaction")]
     \/ cl' = [cl EXCEPT !.pc = "done",
                 !.res = Fulfilled([signature |-> "signature",
                           estimatedUnits |-> cl.fees.estimatedUnits,
                           priorityFee |-> cl.fees.priorityFee])]
  /\ UNCHANGED Rest

SmartNext ==
  \/ EstimateTransactionFees \/ SendSmartTransaction
  \/ CuBlockhash \/ CuSimulated
  \/ FeeBlockhash \/ FeeFetched \/ FeeParsed
  \/ FeesSettled \/ SmartBlockhash \/ SmartSent

SpecSmart == SmartInit /\ [][SmartNext]_vars

\* C17: estimateTransactionFees starts both estimates before it waits for
\* either; when it returns, both estimates have succeeded and its
\* instructions are [the setComputeUnitLimit instruction of the compute-unit
\* estimate, the setComputeUnitPrice instruction of the fee estimate,
\* ...the given instructions in their order], whichever estimate settled
\* first; when either estimate has failed it returns nothing and fails.
C17_EstimateOrder ==
  (cl # NoClient /\ cl.op = "estimateTransactionFees") =>
    /\ (cl.cu.pc = "idle") <=> (cl.fee.pc = "idle")
    /\ (cl.cu.pc = "idle") <=> (cl.pc = "idle")
    /\ (cl.res # NoClient /\ cl.res.pc = "ok") =>
         /\ cl.cu.pc = "ok" /\ cl.fee.pc = "ok"
         /\ Len(cl.res.v.instructions) = Len(cl.instructions) + 2
         /\ cl.res.v.instructions[1] = cl.cu.v.instruction
         /\ cl.res.v.instructions[1].type = "setComputeUnitLimit"
         /\ cl.res.v.instructions[2] = cl.fee.v.instruction
         /\ cl.res.v.instructions[2].type = "setComputeUnitPrice"
         /\ \A i \in DOMAIN cl.instructions :
              cl.res.v.instructions[i + 2] = cl.instructions[i]
    /\ (cl.cu.pc = "err" \/ cl.fee.pc = "err") =>
         /\ cl.res = NoClient \/ cl.res.pc = "err"
         /\ cl.pc = "done" => cl.res.pc = "err"

\* estimateTransactionFees([ixB, ixA]) has returned [limit, price, ixB, ixA]
\* after the fee estimate settled before the compute-unit estimate
C17_Witness ==
  /\ cl # NoClient /\ cl.op = "estimateTransactionFees" /\ cl.pc = "done"
  /\ cl.order = <<"fee", "cu">>
  /\ cl.res.pc = "ok"
  /\ cl.instructions = <<[type |-> "ixB"], [type |-> "ixA"]>>
  /\ Len(cl.res.v.instructions) = 4
  /\ cl.res.v.instructions[1].type = "setComputeUnitLimit"
  /\ cl.res.v.instructions[2].type = "setComputeUnitPrice"
  /\ cl.res.v.instructions[3].type = "ixB"
  /\ cl.res.v.instructions[4].type = "ixA"

\* C18: sendSmartTransaction calls connection.sendRawTransaction at most
\* once; it signs and submits only after both estimates have succeeded;
\* when the simulation reported an error or the fee endpoint returned an
\* error nothing is signed or submitted and the call fails; the submission
\* carries [limit, price, ...instructions] with skipPreflight true and
\* maxRetries 0 unless opts gives them.
C18_SendOnce ==
  (cl # NoClient /\ cl.op = "sendSmartTransaction") =>
    /\ Len(cl.sent) <= 1
    /\ (cl.signed \/ cl.sent # <<>>) =>
         cl.cu.pc = "ok" /\ cl.fee.pc = "ok"
    /\ (\/ cl.cu.pc = "err" /\ cl.cu.err = "Simulation failed"
        \/ cl.fee.pc = "err" /\ cl.fee.err = "Priority fee estimation failed")
       => /\ ~cl.signed /\ cl.sent = <<>>
          /\ cl.pc = "done" => cl.res.pc = "err"
    /\ cl.sent # <<>> =>
         /\ cl.signed
         /\ cl.sent[1].skipPreflight =
              IF cl.opts # Undefined /\ "skipPreflight" \in DOMAIN cl.opts
                THEN cl.opts.skipPreflight ELSE TRUE
         /\ cl.sent[1].maxRetries =
              IF cl.opts # Undefined /\ "maxRetries" \in DOMAIN cl.opts
                THEN cl.opts.maxRetries ELSE 0
         /\ cl.sent[1].rawTx.instructions =
              <<cl.cu.v.instruction, cl.fee.v.instruction>>
              \o cl.instructions

\* sendSmartTransaction([ixA], [payer], { maxRetries: 3 }) has submitted
\* once, with skipPreflight true and maxRetries 3, and returned
C18_Witness ==
  /\ cl # NoClient /\ cl.op = "sendSmartTransaction" /\ cl.pc = "done"
  /\ cl.opts = [maxRetries |-> 3]
  /\ cl.res.pc = "ok" /\ cl.signed /\ Len(cl.sent) = 1
  /\ cl.sent[1].skipPreflight = TRUE /\ cl.sent[1].maxRetries = 3
  /\ Len(cl.sent[1].rawTx.instructions) = 3

\* ---------------------------------------------------------------------
\* Fixed-capacity strings of a Market

Min(a, b) == IF a < b THEN a ELSE b

\* the first min(declared length, capacity) bytes of the region at `off`,
\* the declared length being the u16 at `lenOff`, as text
FixedText(buf, off, capacity, lenOff) ==
  Utf8Decode(SubSeq(buf, off + 1, off + Min(U16At(buf, lenOff), capacity)))

\* C21: the title, the description and every outcome label of a Market
\* record that decodeMarket returns are the first min(declared length,
\* capacity) bytes of the field's own region in the account (title 128,
\* description 512, label 64 bytes, at the offsets of the account's
\* layout), for every declared length.
C21_StringsFromOwnRegion ==
  (dres.by = "Market" /\ acct.type = "Market"
     /\ acct.layout \in {"old", "new"} /\ dres.res.ok) =>
    LET base == IF acct.layout = "new" THEN 254 ELSE 220
        m == dres.res.v
    IN  /\ m.title = FixedText(data, base, MAX_TITLE_LEN, base + 128)
        /\ m.description =
             FixedText(data, base + 130, MAX_DESCRIPTION_LEN, base + 642)
        /\ \A i \in DOMAIN m.outcomeLabels :
             m.outcomeLabels[i] =
               FixedText(data, base + 644 + (i - 1) * MAX_OUTCOME_LABEL_LEN,
                         MAX_OUTCOME_LABEL_LEN, base + 1284 + 2 * (i - 1))

\* C22: every record decodeMultisigAuthority returns has
\* signers.length = numSigners <= 11, its signers being the first numSigners
\* of the 11 slots of the account, in slot order.
C22_SignersTruncated ==
  (dres.by = "MultisigAuthority" /\ dres.res.ok) =>
    /\ Len(dres.res.v.signers) = dres.res.v.numSigners
    /\ dres.res.v.numSigners <= MAX_MULTISIG_SIGNERS
    /\ \A i \in DOMAIN dres.res.v.signers :
         dres.res.v.signers[i] = SubSeq(data, 19 + 32 * (i - 1) + 1,
                                        19 + 32 * i)

\* ---------------------------------------------------------------------
\* Optional instruction arguments

\* an argument that is null, undefined or not given
IsAbsent(args, name) ==
  prop(args, name) = Null \/ prop(args, name) = Undefined

\* the length of the createMarket payload before its option
CreateMarketPrefix(args) ==
  1 + 8 + 4 + Len(Utf8Encode(args.title))
  + 4 + Len(Utf8Encode(args.description))
  + 4 + Len(Concat([i \in DOMAIN args.outcomeLabels |->
                      <<0, 0, 0, 0>> \o Utf8Encode(args.outcomeLabels[i])]))
  + 8

\* C23: in the payload that createMarket and updateProtocolConfig return, an
\* optional argument that is null, undefined or not given is the single byte
\* 0, and any other value, 0 and false included, is the byte 1 followed by
\* its payload (u16 little-endian, 32 key bytes, one bool byte).
C23_OptionPresence ==
  (ix # NoIx /\ ix.res # NoIx /\ ix.res.ok) =>
    /\ ix.op = "updateProtocolConfig" =>
         ix.res.v.data =
           <<Opcode.updateProtocolConfig>>
           \o (IF IsAbsent(ix.args, "newDefaultFeeBps") THEN <<0>>
               ELSE <<1, ix.args.newDefaultFeeBps.v % 256,
                      ix.args.newDefaultFeeBps.v \div 256>>)
           \o (IF IsAbsent(ix.args, "newTreasury") THEN <<0>>
               ELSE <<1>> \o ix.args.newTreasury.v)
           \o (IF IsAbsent(ix.args, "paused") THEN <<0>>
               ELSE <<1, IF ix.args.paused.v THEN 1 ELSE 0>>)
    /\ ix.op = "createMarket" =>
         SubSeq(ix.res.v.data, CreateMarketPrefix(ix.args) + 1,
                Len(ix.res.v.data))
           = (IF IsAbsent(ix.args, "feeBpsOverride") THEN <<0>>
              ELSE <<1, ix.args.feeBpsOverride.v % 256,
                     ix.args.feeBpsOverride.v \div 256>>)
             \o <<ix.args.denomination,
                  IF ix.args.authorityIsMultisig THEN 1 ELSE 0>>

\* updateProtocolConfig({ newDefaultFeeBps: 0, paused: false }) has returned
\* the payload [8, 1, 0, 0, 0, 1, 0]
C23_Witness ==
  /\ ix # NoIx /\ ix.res # NoIx /\ ix.res.ok
  /\ ix.op = "updateProtocolConfig"
  /\ DOMAIN ix.args = {"newDefaultFeeBps", "paused"}
  /\ ix.args.newDefaultFeeBps = Some(0) /\ ix.args.paused = Some(FALSE)
  /\ ix.res.v.data = <<8, 1, 0, 0, 0, 1, 0>>

\* ---------------------------------------------------------------------
\* Buffers as views on memory: what BorshReader shares with its caller.
\* heap.mem is the list of memory blocks; a Buffer is a view
\* [mem, start, len] on one of them; block 1 is the caller's. heap.source
\* is the data handed to the constructor, heap.buf and heap.offset the
\* reader's fields (heap.buf is NoHeap before the constructor ran),
\* heap.out the byte arrays returned so far, each with the bytes it had
\* when returned, heap.caller what the caller itself put in block 1.

\* returned arrays and caller writes per behaviour
MaxReturned == 2
MaxCallerWrites == 2

View(mem, start, len) == [mem |-> mem, start |-> start, len |-> len]

\* the bytes seen through a view
bytesOf(mem, view) ==
  SubSeq(mem[view.mem], view.start + 1, view.start + view.len)

\* buf.subarray(from, to), both ends within the view: the same memory
bufSubarray(view, from, to) ==
  View(view.mem, view.start + from, to - from)

\* a Buffer on the memory of the view it is made from
BufferFromShared(h, view) == [mem |-> h.mem, view |-> view]

\* Buffer.from(buffer or Uint8Array): a new block holding a copy
BufferFrom(h, view) ==
  [mem |-> Append(h.mem, bytesOf(h.mem, view)),
   view |-> View(Len(h.mem) + 1, 0, view.len)]

\* readFixedBytes returning the slice itself
readFixedBytesSlice(h, len) ==
  [h EXCEPT !.offset = h.offset + len,
            !.out = Append(h.out,
                      [view |-> bufSubarray(h.buf, h.offset, h.offset + len),
                       was |-> bytesOf(h.mem, bufSubarray(h.buf, h.offset,
                                                         h.offset + len))])]

\* readFixedBytes past _check: slice = this.buf.subarray(...), the offset
\* moved, Buffer.from(slice) returned
readFixedBytesCopy(h, len) ==
  LET made == BufferFrom(h, bufSubarray(h.buf, h.offset, h.offset + len))
  IN  [h EXCEPT !.mem = made.mem, !.offset = h.offset + len,
                !.out = Append(h.out,
                          [view |-> made.view,
                           was |-> bytesOf(made.mem, made.view)])]

\* the caller's block, the data being a part of it
AliasInit ==
  /\ wr = NoWriter /\ written = <<>> /\ rd = NoReader /\ rres = <<>>
  /\ acct = NoDecode /\ data = NoDecode /\ dres = NoDecode
  /\ ix = NoIx /\ pda = NoPda /\ cl = NoClient
  /\ \E start \in 0..1, len \in 3..4 :
       heap = [mem |-> << <<9, 10, 20, 30, 40, 9>> >>,
               caller |-> <<9, 10, 20, 30, 40, 9>>,
               source |-> View(1, start, len),
               buf |-> NoHeap, offset |-> 0, out |-> <<>>, writes |-> 0]

NotHeap == <<wr, written, rd, rres, acct, data, dres, ix, pda, cl>>

\* new BorshReader(data)
NewReader ==
  /\ heap # NoHeap /\ heap.buf = NoHeap
  /\ heap' = [heap EXCEPT !.mem = BufferFrom(heap, heap.source).mem,
                          !.buf = BufferFrom(heap, heap.source).view]
  /\ UNCHANGED NotHeap

\* readU8, skip: the offset moves, a number or nothing is returned
ReadNumber ==
  /\ heap # NoHeap /\ heap.buf # NoHeap
  /\ heap.offset + 1 <= heap.buf.len
  /\ heap' = [heap EXCEPT !.offset = heap.offset + 1]
  /\ UNCHANGED NotHeap

\* readFixedBytes(len) that does not throw
ReadBytes ==
  /\ heap # NoHeap /\ heap.buf # NoHeap /\ Len(heap.out) < MaxReturned
  /\ \E len \in 0..3 :
       /\ heap.offset + len <= heap.buf.len
       /\ heap' = readFixedBytesCopy(heap, len)
  /\ UNCHANGED NotHeap

\* the caller changes a byte of its own block, before, between or after
\* the reader's calls
CallerWrites ==
  /\ heap # NoHeap /\ heap.writes < MaxCallerWrites
  /\ \E i \in 1..Len(heap.mem[1]), b \in {0, 255} :
       heap' = [heap EXCEPT !.mem[1][i] = b, !.caller[i] = b,
                            !.writes = heap.writes + 1]
  /\ UNCHANGED NotHeap

AliasNext == NewReader \/ ReadNumber \/ ReadBytes \/ CallerWrites

SpecAlias == AliasInit /\ [][AliasNext]_vars

\* C24: the caller's block holds what the caller put there, whatever the
\* reader has done; every byte array the reader returned lies in a block of
\* its own, shared neither with the caller's data nor with the reader's
\* buffer nor with another returned array, and still holds the bytes it was
\* returned with, whatever the caller has written to its data since.
C24_SourceUntouched ==
  heap # NoHeap =>
    /\ heap.mem[1] = heap.caller
    /\ heap.buf # NoHeap => heap.buf.mem # heap.source.mem
    /\ \A i \in DOMAIN heap.out :
         /\ heap.out[i].view.mem # heap.source.mem
         /\ heap.buf # NoHeap /\ heap.out[i].view.mem # heap.buf.mem
         /\ \A j \in DOMAIN heap.out :
              j # i => heap.out[j].view.mem # heap.out[i].view.mem
         /\ bytesOf(heap.mem, heap.out[i].view) = heap.out[i].was

\* the reader returned the bytes 10, 20 of the data, and the caller has
\* since overwritten them in its block with 0, 255
C24_Witness ==
  /\ heap # NoHeap /\ Len(heap.out) = 1
  /\ heap.out[1].was = <<10, 20>>
  /\ bytesOf(heap.mem, heap.out[1].view) = <<10, 20>>
  /\ bytesOf(heap.mem, heap.source) = <<0, 255, 30>>

\* C25: every write on a BorshWriter ends, whatever the initial capacity (0
\* included): the growing loop stops, and the bytes written so far fit the
\* buffer.
C25_GrowTerminates ==
  wr # NoWriter => (wr.st # "hang" /\ wr.offset <= Len(wr.buf))

\* ---------------------------------------------------------------------
\* The base58 encoder of the client (client.js, bs58Encode): a string is
\* the sequence of its characters.
\* ---------------------------------------------------------------------

BS58_ALPHA == <<
  "1", "2", "3", "4", "5", "6", "7", "8", "9", "A",
  "B", "C", "D", "E", "F", "G", "H", "J", "K", "L",
  "M", "N", "P", "Q", "R", "S", "T", "U", "V", "W",
  "X", "Y", "Z", "a", "b", "c", "d", "e", "f", "g",
  "h", "i", "j", "k", "m", "n", "o", "p", "q", "r",
  "s", "t", "u", "v", "w", "x", "y", "z" >>

Repeat(ch, n) == [i \in 1..n |-> ch]

\* while (zeros < bytes.length && bytes[zeros] === 0) zeros++
RECURSIVE leadingZeros(_, _)
leadingZeros(bytes, zeros) ==
  IF zeros < Len(bytes) /\ bytes[zeros + 1] = 0
    THEN leadingZeros(bytes, zeros + 1)
    ELSE zeros

\* for (j ...) { carry += digits[j] * 256; digits[j] = carry % 58;
\*               carry = (carry / 58) | 0 }
RECURSIVE mulAdd(_, _, _)
mulAdd(digits, j, carry) ==
  IF j > Len(digits)
    THEN [digits |-> digits, carry |-> carry]
    ELSE mulAdd([digits EXCEPT ![j] = (carry + digits[j] * 256) % 58],
                j + 1, (carry + digits[j] * 256) \div 58)

\* while (carry > 0) { digits.push(carry % 58); carry = (carry / 58) | 0 }
RECURSIVE pushCarry(_, _)
pushCarry(digits, carry) ==
  IF carry > 0
    THEN pushCarry(Append(digits, carry % 58), carry \div 58)
    ELSE digits

afterByte(m) == pushCarry(m.digits, m.carry)

\* for (let i = zeros; i < bytes.length; i++) ...; digits starts as [0], is
\* little-endian and never empty
RECURSIVE encodeDigits(_, _, _)
encodeDigits(bytes, i, digits) ==
  IF i > Len(bytes) \/ Len(digits) = 0
    THEN digits
    ELSE encodeDigits(bytes, i + 1, afterByte(mulAdd(digits, 1, bytes[i])))

reverseMap(digits) ==
  [k \in 1..Len(digits) |-> BS58_ALPHA[digits[Len(digits) + 1 - k] + 1]]

bs58Encode(buf) ==
  Repeat(BS58_ALPHA[1], leadingZeros(buf, 0))
    \o reverseMap(encodeDigits(buf, leadingZeros(buf, 0) + 1, <<0>>))

\* Standard Base58 and its decoding, computed on limbs of 24 bits so that a
\* 32-byte key is 11 limbs and every product stays below 2^31. The loops
\* over the characters go four at a time, and each tests the value it
\* carries along, which keeps its evaluation from being put off to the end.
\* three bytes to the limb
LimbBase == 256 * 256 * 256

stripZeros(bytes) ==
  SubSeq(bytes, leadingZeros(bytes, 0) + 1, Len(bytes))

\* the byte at 1-based place k of bytes padded at the front to 3 * n bytes
paddedByte(bytes, n, k) ==
  IF k <= 3 * n - Len(bytes) THEN 0 ELSE bytes[k - (3 * n - Len(bytes))]

\* the big-endian number `bytes` as limbs, most significant first
limbsOf(bytes) ==
  [k \in 1..((Len(bytes) + 2) \div 3) |->
     paddedByte(bytes, (Len(bytes) + 2) \div 3, 3 * k - 2) * 65536
     + paddedByte(bytes, (Len(bytes) + 2) \div 3, 3 * k - 1) * 256
     + paddedByte(bytes, (Len(bytes) + 2) \div 3, 3 * k)] \o <<>>

allZero(limbs) == \A k \in 1..Len(limbs) : limbs[k] = 0

\* long division by 58 of limbs, most significant first
RECURSIVE longDiv58(_, _, _, _)
longDiv58(limbs, i, rem, quot) ==
  IF i > Len(limbs)
    THEN [quot |-> quot, rem |-> rem]
    ELSE longDiv58(limbs, i + 1, (rem * LimbBase + limbs[i]) % 58,
                   Append(quot, (rem * LimbBase + limbs[i]) \div 58))

\* one more digit in front of those found
withDigit(found, divided) ==
  [limbs |-> divided.quot, digits |-> <<divided.rem>> \o found.digits]

nextDigit(found) ==
  IF allZero(found.limbs) THEN found
  ELSE withDigit(found, longDiv58(found.limbs, 1, 0, <<>>))

\* the digits of the number, most significant first, none for the number 0
RECURSIVE digitsFrom(_)
digitsFrom(found) ==
  IF allZero(found.limbs) THEN found.digits
  ELSE digitsFrom(nextDigit(nextDigit(nextDigit(nextDigit(found)))))

numberDigits58(bytes) ==
  digitsFrom([limbs |-> limbsOf(stripZeros(bytes)), digits |-> <<>>])

alphabetMap(digits) == [k \in 1..Len(digits) |-> BS58_ALPHA[digits[k] + 1]]

base58(bytes) ==
  Repeat("1", leadingZeros(bytes, 0)) \o alphabetMap(numberDigits58(bytes))

\* Standard Base58 decoding: one zero byte per leading '1', then the bytes
\* of the number the remaining characters spell, most significant first.
indexOf(ch) == CHOOSE d \in 0..57 : BS58_ALPHA[d + 1] = ch

RECURSIVE leadingOnes(_, _)
leadingOnes(str, ones) ==
  IF ones < Len(str) /\ str[ones + 1] = "1"
    THEN leadingOnes(str, ones + 1)
    ELSE ones

\* limbs (least significant first) times 58 plus carry
RECURSIVE mulAdd58(_, _, _)
mulAdd58(limbs, j, carry) ==
  IF j > Len(limbs)
    THEN IF carry > 0 THEN Append(limbs, carry) ELSE limbs
    ELSE mulAdd58([limbs EXCEPT ![j] = (carry + limbs[j] * 58) % LimbBase],
                  j + 1, (carry + limbs[j] * 58) \div LimbBase)

\* the limbs after the character at place i, if there is one
withChar(limbs, str, i) ==
  IF i > Len(str) THEN limbs ELSE mulAdd58(limbs, 1, indexOf(str[i]))

RECURSIVE numberLimbs(_, _, _)
numberLimbs(str, i, limbs) ==
  IF i > Len(str) \/ Len(limbs) > Len(str)
    THEN limbs
    ELSE numberLimbs(str, i + 4,
           withChar(withChar(withChar(withChar(limbs, str, i), str, i + 1),
                             str, i + 2), str, i + 3))

\* the bytes of limbs, most significant first
limbBytes(limbs) ==
  [k \in 1..(3 * Len(limbs)) |->
     CASE k % 3 = 1 -> limbs[Len(limbs) - ((k - 1) \div 3)] \div 65536
       [] k % 3 = 2 -> (limbs[Len(limbs) - ((k - 1) \div 3)] \div 256) % 256
       [] OTHER -> limbs[Len(limbs) - ((k - 1) \div 3)] % 256] \o <<>>

numberBytes(str, from) == stripZeros(limbBytes(numberLimbs(str, from, <<>>)))

base58Decode(str) ==
  Zeros(leadingOnes(str, 0)) \o numberBytes(str, leadingOnes(str, 0) + 1)

MaxBs58Len == 3
Bs58Bytes == {0, 1, 57, 58, 255}

Bs58Inputs ==
  UNION {[1..n -> Bs58Bytes] : n \in 0..MaxBs58Len}
    \cup {ACCOUNT_DISCRIMINATORS.MARKET, ACCOUNT_DISCRIMINATORS.USER_POSITION,
          ACCOUNT_DISCRIMINATORS.MULTISIG_PROPOSAL, Zeros(8)}

Bs58Init ==
  /\ wr = NoWriter /\ written = <<>> /\ rd = NoReader /\ rres = <<>>
  /\ acct = NoDecode /\ data = NoDecode /\ dres = NoDecode
  /\ ix = NoIx /\ pda = NoPda /\ heap = NoHeap
  /\ \E buf \in Bs58Inputs :
       cl = [op |-> "bs58Encode", buf |-> buf, res |-> NoClient]

Bs58Encode ==
  /\ cl # NoClient /\ cl.op = "bs58Encode" /\ cl.res = NoClient
  /\ cl' = [cl EXCEPT !.res = bs58Encode(cl.buf)]
  /\ UNCHANGED <<wr, written, rd, rres, acct, data, dres, ix, pda, heap>>

Bs58Next == Bs58Encode

SpecBs58 == Bs58Init /\ [][Bs58Next]_vars

\* C30: bs58Encode is standard Base58 on every byte string: one leading '1'
\* for each leading zero byte, then the base-58 digits of the remaining
\* bytes read as a big-endian number, and decoding the result gives the
\* input back (the empty array and the all-zero arrays included).
C30_Bs58Standard ==
  (cl # NoClient /\ cl.op = "bs58Encode" /\ cl.res # NoClient) =>
    /\ cl.res = base58(cl.buf)
    /\ base58Decode(cl.res) = cl.buf

\* ---------------------------------------------------------------------
\* The payouts of all the winning positions of one market: calculatePayout
\* is called once for each position, with the sum of the positions'
\* amounts as winningPool.
\* ---------------------------------------------------------------------

MaxPositions == 3
PoolAmounts == {0, 1, 2, 3, 7}
PoolTotals == {0, 1, 3, 10, 30, 1000}
PoolFeeRates == {[n |-> 0, d |-> 1], [n |-> 250, d |-> 1]}

RECURSIVE SumOf(_)
SumOf(amounts) ==
  IF amounts = <<>> THEN 0 ELSE Head(amounts) + SumOf(Tail(amounts))

WinningPositions ==
  {amounts \in UNION {[1..n -> PoolAmounts] : n \in 1..MaxPositions} :
     SumOf(amounts) > 0}

PoolInit ==
  /\ wr = NoWriter /\ written = <<>> /\ rd = NoReader /\ rres = <<>>
  /\ acct = NoDecode /\ data = NoDecode /\ dres = NoDecode
  /\ ix = NoIx /\ pda = NoPda /\ heap = NoHeap
  /\ \E amounts \in WinningPositions, total \in PoolTotals,
        rate \in PoolFeeRates :
       cl = [op |-> "payouts", amounts |-> amounts,
             winningPool |-> SumOf(amounts), totalPool |-> total,
             feeBps |-> rate, payouts |-> <<>>]

\* the payout of the next position
PayoutOfPosition ==
  /\ cl # NoClient /\ cl.op = "payouts"
  /\ Len(cl.payouts) < Len(cl.amounts)
  /\ cl' = [cl EXCEPT !.payouts =
              Append(@, calculatePayout(cl.amounts[Len(cl.payouts) + 1],
                          cl.winningPool, cl.totalPool, cl.feeBps))]
  /\ UNCHANGED <<wr, written, rd, rres, acct, data, dres, ix, pda, heap>>

PoolNext == PayoutOfPosition

SpecPool == PoolInit /\ [][PoolNext]_vars

RECURSIVE GrossSum(_)
GrossSum(payouts) ==
  IF payouts = <<>> THEN 0
  ELSE Head(payouts).v.gross + GrossSum(Tail(payouts))

AllPaid ==
  cl # NoClient /\ cl.op = "payouts" /\ Len(cl.payouts) = Len(cl.amounts)

\* C29: for winning positions whose amounts sum to winningPool > 0, every
\* calculatePayout call returns, the gross values sum to at most totalPool,
\* and the sum falls short of totalPool by less than the number of positions.
C29_PayoutsWithinPool ==
  AllPaid =>
    /\ \A k \in 1..Len(cl.payouts) : cl.payouts[k].ok
    /\ GrossSum(cl.payouts) <= cl.totalPool
    /\ cl.totalPool - GrossSum(cl.payouts) < Len(cl.amounts)

\* C29 witness: three positions are paid, the division is inexact and the
\* payouts together leave part of the pool unpaid.
C29_Witness ==
  /\ AllPaid /\ Len(cl.amounts) = 3 /\ cl.winningPool = 3 /\ cl.totalPool = 10
  /\ GrossSum(cl.payouts) = 9

\* ---------------------------------------------------------------------
\* The bet and claim methods of the client (client.js): each derives the
\* addresses it can, builds one instruction from its params and hands it
\* to sendTransaction.
\* ---------------------------------------------------------------------

\* seeds: ["protocol_config"]
findProtocolConfigAddress(programId) ==
  findProgramAddress(<<SEEDS.PROTOCOL_CONFIG>>, programId)

\* seeds: ["vault", market]
findVaultAddress(market, programId) ==
  findProgramAddress(<<SEEDS.VAULT, market>>, programId)

\* seeds: ["vault_authority", market]
findVaultAuthorityAddress(market, programId) ==
  findProgramAddress(<<SEEDS.VAULT_AUTHORITY, market>>, programId)

\* the first failure of the awaited derivations, if any
firstThrown(found) ==
  IF \A k \in 1..Len(found) : found[k].ok THEN <<>>
  ELSE <<found[CHOOSE k \in 1..Len(found) :
                 ~found[k].ok /\ \A j \in 1..(k - 1) : found[j].ok].err>>

\* what a method does after its derivations: the instruction is built and
\* sent, unless a derivation or the builder threw
sendBuilt(found, instruction, signers) ==
  IF firstThrown(found) # <<>>
    THEN [ok |-> FALSE, err |-> firstThrown(found)[1], sent |-> <<>>]
  ELSE IF ~instruction.ok
    THEN [ok |-> FALSE, err |-> instruction.err, sent |-> <<>>]
  ELSE [ok |-> TRUE, sent |-> <<instruction.v>>, signers |-> signers]

placeSolBet(params, programId) ==
  sendBuilt(
    <<findVaultAddress(params.market, programId),
      findPositionAddress(params.market, params.bettor.publicKey,
                          params.outcomeIndex, programId)>>,
    placeBet(
      [market |-> params.market,
       vault |-> findVaultAddress(params.market, programId).v[1],
       position |-> findPositionAddress(params.market,
                      params.bettor.publicKey, params.outcomeIndex,
                      programId).v[1],
       bettor |-> params.bettor.publicKey],
      [outcomeIndex |-> params.outcomeIndex, amount |-> params.amount],
      programId),
    <<params.bettor>>)

placeTokenBet(params, programId) ==
  sendBuilt(
    <<findVaultAddress(params.market, programId),
      findPositionAddress(params.market, params.bettor.publicKey,
                          params.outcomeIndex, programId),
      findVaultAuthorityAddress(params.market, programId)>>,
    placeBet(
      [market |-> params.market,
       vault |-> findVaultAddress(params.market, programId).v[1],
       position |-> findPositionAddress(params.market,
                      params.bettor.publicKey, params.outcomeIndex,
                      programId).v[1],
       bettor |-> params.bettor.publicKey,
       bettorTokenAccount |-> prop(params, "bettorTokenAccount"),
       tokenVault |-> prop(params, "tokenVault"),
       tokenMint |-> prop(params, "tokenMint"),
       tokenProgram |-> prop(params, "tokenProgram"),
       vaultAuthority |->
         findVaultAuthorityAddress(params.market, programId).v[1]],
      [outcomeIndex |-> params.outcomeIndex, amount |-> params.amount],
      programId),
    <<params.bettor>>)

claimSolWinnings(params, programId) ==
  sendBuilt(
    <<findVaultAddress(params.market, programId),
      findProtocolConfigAddress(programId)>>,
    claimWinnings(
      [market |-> params.market,
       vault |-> findVaultAddress(params.market, programId).v[1],
       position |-> params.position,
       claimant |-> params.claimant.publicKey,
       protocolConfig |-> findProtocolConfigAddress(programId).v[1],
       treasury |-> params.treasury],
      programId),
    <<params.claimant>>)

claimTokenWinnings(params, programId) ==
  sendBuilt(
    <<findVaultAddress(params.market, programId),
      findVaultAuthorityAddress(params.market, programId),
      findProtocolConfigAddress(programId)>>,
    claimWinnings(
      [market |-> params.market,
       vault |-> findVaultAddress(params.market, programId).v[1],
       position |-> params.position,
       claimant |-> params.claimant.publicKey,
       protocolConfig |-> findProtocolConfigAddress(programId).v[1],
       treasury |-> params.treasury,
       claimantTokenAccount |-> prop(params, "claimantTokenAccount"),
       treasuryTokenAccount |-> prop(params, "treasuryTokenAccount"),
       tokenVault |-> prop(params, "tokenVault"),
       vaultAuthority |->
         findVaultAuthorityAddress(params.market, programId).v[1],
       tokenMint |-> prop(params, "tokenMint"),
       tokenProgram |-> prop(params, "tokenProgram")],
      programId),
    <<params.claimant>>)

claimSolRefund(params, programId) ==
  sendBuilt(
    <<findVaultAddress(params.market, programId)>>,
    claimRefund(
      [market |-> params.market,
       vault |-> findVaultAddress(params.market, programId).v[1],
       position |-> params.position,
       claimant |-> params.claimant.publicKey],
      programId),
    <<params.claimant>>)

claimTokenRefund(params, programId) ==
  sendBuilt(
    <<findVaultAddress(params.market, programId),
      findVaultAuthorityAddress(params.market, programId)>>,
    claimRefund(
      [market |-> params.market,
       vault |-> findVaultAddress(params.market, programId).v[1],
       position |-> params.position,
       claimant |-> params.claimant.publicKey,
       claimantTokenAccount |-> prop(params, "claimantTokenAccount"),
       tokenVault |-> prop(params, "tokenVault"),
       vaultAuthority |->
         findVaultAuthorityAddress(params.market, programId).v[1],
       tokenMint |-> prop(params, "tokenMint"),
       tokenProgram |-> prop(params, "tokenProgram")],
      programId),
    <<params.claimant>>)

\* the documented params of each method, every one of them supplied
BetParams ==
  {[bettor |-> [publicKey |-> Key(user)], market |-> Key(market),
    outcomeIndex |-> outcomeIndex, amount |-> Amounts[i].v] :
     user \in {3, 4}, market \in {1, 2}, outcomeIndex \in {0, 1, 255},
     i \in {1, 2}}

TokenParams ==
  [bettorTokenAccount |-> Key(11), tokenVault |-> Key(12),
   tokenMint |-> Key(13), tokenProgram |-> Key(14)]

ClaimParams ==
  {[claimant |-> [publicKey |-> Key(user)], market |-> Key(market),
    position |-> Key(position), treasury |-> Key(9)] :
     user \in {3, 4}, market \in {1, 2}, position \in {5, 6}}

ClaimTokenParams ==
  [claimantTokenAccount |-> Key(11), treasuryTokenAccount |-> Key(15),
   tokenVault |-> Key(12), tokenMint |-> Key(13), tokenProgram |-> Key(14)]

\* the record p with the fields of q added
Merged(p, q) ==
  [f \in DOMAIN p \cup DOMAIN q |-> IF f \in DOMAIN q THEN q[f] ELSE p[f]]

MethodCalls ==
  {[op |-> "placeSolBet", params |-> p] : p \in BetParams}
  \cup {[op |-> "placeTokenBet", params |-> Merged(p, TokenParams)] :
          p \in BetParams}
  \cup {[op |-> op, params |-> p] :
          op \in {"claimSolWinnings", "claimSolRefund"}, p \in ClaimParams}
  \cup {[op |-> op, params |-> Merged(p, ClaimTokenParams)] :
          op \in {"claimTokenWinnings", "claimTokenRefund"},
          p \in ClaimParams}

MethodCurves == {<<{}, {}>>, <<{255}, {254, 255}>>, <<{}, 0..255>>}

MethodInit ==
  /\ wr = NoWriter /\ written = <<>> /\ rd = NoReader /\ rres = <<>>
  /\ acct = NoDecode /\ data = NoDecode /\ dres = NoDecode
  /\ ix = NoIx /\ heap = NoHeap
  /\ \E curve \in MethodCurves :
       pda = [curve |-> curve, lowest |-> 0, todo |-> <<>>, calls |-> <<>>]
  /\ \E call \in MethodCalls :
       cl = [op |-> call.op, params |-> call.params,
             programId |-> PROGRAM_ID, res |-> NoClient]

\* the method `op` is called and has returned or thrown
Method(op, res) ==
  /\ cl # NoClient /\ cl.op = op /\ cl.res = NoClient
  /\ cl' = [cl EXCEPT !.res = res]
  /\ UNCHANGED <<wr, written, rd, rres, acct, data, dres, ix, pda, heap>>

PlaceSolBet == Method("placeSolBet", placeSolBet(cl.params, cl.programId))

PlaceTokenBet ==
  Method("placeTokenBet", placeTokenBet(cl.params, cl.programId))

ClaimSolWinnings ==
  Method("claimSolWinnings", claimSolWinnings(cl.params, cl.programId))

ClaimTokenWinnings ==
  Method("claimTokenWinnings", claimTokenWinnings(cl.params, cl.programId))

ClaimSolRefund ==
  Method("claimSolRefund", claimSolRefund(cl.params, cl.programId))

ClaimTokenRefund ==
  Method("claimTokenRefund", claimTokenRefund(cl.params, cl.programId))

MethodNext ==
  \/ PlaceSolBet \/ PlaceTokenBet \/ ClaimSolWinnings \/ ClaimTokenWinnings
  \/ ClaimSolRefund \/ ClaimTokenRefund

SpecMethod == MethodInit /\ [][MethodNext]_vars

BetAndClaimMethods ==
  {"placeSolBet", "placeTokenBet", "claimSolWinnings", "claimTokenWinnings",
   "claimSolRefund", "claimTokenRefund"}

\* C27: in the instruction that a bet or claim method of the client sends,
\* no account reference has an undefined address.
C27_NoUndefinedAccount ==
  (cl # NoClient /\ cl.op \in BetAndClaimMethods /\ cl.res # NoClient
     /\ cl.res.ok) =>
    \A k \in 1..Len(cl.res.sent[1].keys) :
      cl.res.sent[1].keys[k].pubkey # Undefined

\* ---------------------------------------------------------------------
\* client.createProposal, called by several callers on one multisig: each
\* call fetches the multisig account, derives the proposal address from the
\* proposalCount it read, and sends its instruction; the calls interleave
\* at their awaits.
\* ---------------------------------------------------------------------

MaxCallers == 2
ProposalMultisig == Key(20)
ProposalCurves == {<<{}, {}>>, <<{255}, {255}>>}

\* the MultisigAuthority account whose proposal counter is `count`
MultisigWithCount(count) ==
  ACCOUNT_DISCRIMINATORS.MULTISIG_AUTHORITY \o <<251>> \o Le64(1)
  \o <<2, 2>>
  \o Concat([i \in 1..MAX_MULTISIG_SIGNERS |-> Key(10 + i)]) \o Le64(count)

\* seeds: ["proposal", multisig, proposal_id_le]
findProposalAddress(multisig, proposalId, programId) ==
  IF ~u64ToLeBytes(proposalId).ok
    THEN [ok |-> FALSE, err |-> u64ToLeBytes(proposalId).err, seeds |-> <<>>,
          attempts |-> 0]
    ELSE findProgramAddress(
           <<SEEDS.PROPOSAL, multisig, u64ToLeBytes(proposalId).v>>,
           programId)

\* _fetch(address, decoder) on the account info the connection returned
\* (Null when there is no account)
fetch(info, by) ==
  IF info = Null THEN [ok |-> TRUE, v |-> Null]
  ELSE IF by = "MultisigAuthority" THEN decodeMultisigAuthority(info.data)
  ELSE decodeWith(by, info.data)

\* getAccountInfo(multisig) on the chain as it is now
accountInfo(chain) ==
  IF chain.present THEN [data |-> MultisigWithCount(chain.count)] ELSE Null

\* the program runs a createProposal instruction: the proposal account of
\* the multisig's current counter is created and the counter goes up by
\* one; any other proposal address is refused
processed(chain, instruction) ==
  IF chain.present
     /\ findProposalAddress(instruction.keys[2].pubkey,
                            Wide(FALSE, chain.count, 0, 0, 0), PROGRAM_ID).ok
     /\ instruction.keys[1].pubkey =
          findProposalAddress(instruction.keys[2].pubkey,
                              Wide(FALSE, chain.count, 0, 0, 0),
                              PROGRAM_ID).v[1]
    THEN [ok |-> TRUE, chain |-> [chain EXCEPT !.count = @ + 1]]
    ELSE [ok |-> FALSE, chain |-> chain]

NewCall(proposer, action) ==
  [pc |-> "called",
   params |-> [proposer |-> [publicKey |-> Key(proposer)],
               multisig |-> ProposalMultisig, market |-> Key(1),
               action |-> action],
   msAccount |-> Null, fetched |-> FALSE, proposalId |-> Null,
   proposal |-> Null, instruction |-> Null, res |-> Null]

ProposeInit ==
  /\ wr = NoWriter /\ written = <<>> /\ rd = NoReader /\ rres = <<>>
  /\ acct = NoDecode /\ data = NoDecode /\ dres = NoDecode
  /\ ix = NoIx /\ heap = NoHeap
  /\ \E curve \in ProposalCurves :
       pda = [curve |-> curve, lowest |-> 0, todo |-> <<>>, calls |-> <<>>]
  /\ \E present \in BOOLEAN, count \in {0, 1, 255},
        action \in {[type |-> "VoidMarket"],
                    [type |-> "Bogus", fields |-> NoFields]} :
       cl = [op |-> "createProposal",
             chain |-> [present |-> present, count |-> count],
             submitted |-> <<>>,
             calls |-> [c \in 1..MaxCallers |-> NewCall(2 + c, action)]]

Caller(c) == cl # NoClient /\ cl.op = "createProposal" /\ c \in DOMAIN cl.calls

ProposalRest == <<wr, written, rd, rres, acct, data, dres, ix, pda, heap>>

\* await this.fetchMultisigAuthority(params.multisig)
FetchMultisig(c) ==
  /\ Caller(c) /\ cl.calls[c].pc = "called"
  /\ cl' = [cl EXCEPT !.calls[c] =
       IF fetch(accountInfo(cl.chain), "MultisigAuthority").ok
         THEN [@ EXCEPT !.pc = "fetched", !.fetched = TRUE,
                 !.msAccount =
                   fetch(accountInfo(cl.chain), "MultisigAuthority").v]
         ELSE [@ EXCEPT !.pc = "thrown",
                 !.res = fetch(accountInfo(cl.chain),
                               "MultisigAuthority").err]]
  /\ UNCHANGED ProposalRest

\* the call after the fetch, up to sendTransaction: the check of msAccount,
\* the derivation and the builder
derived(call, programId) ==
  IF call.msAccount = Null
    THEN [call EXCEPT !.pc = "thrown", !.res = "Multisig account not found"]
  ELSE IF ~findProposalAddress(call.params.multisig,
                               call.msAccount.proposalCount, programId).ok
    THEN [call EXCEPT !.pc = "thrown",
            !.res = findProposalAddress(call.params.multisig,
                      call.msAccount.proposalCount, programId).err]
  ELSE IF ~createProposal(
             [proposal |-> findProposalAddress(call.params.multisig,
                             call.msAccount.proposalCount, programId).v[1],
              multisig |-> call.params.multisig,
              market |-> call.params.market,
              proposer |-> call.params.proposer.publicKey],
             [action |-> call.params.action], programId).ok
    THEN [call EXCEPT !.pc = "thrown",
            !.proposalId = call.msAccount.proposalCount,
            !.proposal = findProposalAddress(call.params.multisig,
                           call.msAccount.proposalCount, programId).v[1],
            !.res = "builder threw"]
  ELSE [call EXCEPT !.pc = "built",
          !.proposalId = call.msAccount.proposalCount,
          !.proposal = findProposalAddress(call.params.multisig,
                         call.msAccount.proposalCount, programId).v[1],
          !.instruction =
            createProposal(
              [proposal |-> findProposalAddress(call.params.multisig,
                              call.msAccount.proposalCount, programId).v[1],
               multisig |-> call.params.multisig,
               market |-> call.params.market,
               proposer |-> call.params.proposer.publicKey],
              [action |-> call.params.action], programId).v]

DeriveProposal(c) ==
  /\ Caller(c) /\ cl.calls[c].pc = "fetched"
  /\ cl' = [cl EXCEPT !.calls[c] = derived(@, PROGRAM_ID)]
  /\ UNCHANGED ProposalRest

\* await this.sendTransaction([instruction], [params.proposer], opts)
SubmitProposal(c) ==
  /\ Caller(c) /\ cl.calls[c].pc = "built"
  /\ cl' = [cl EXCEPT
       !.submitted = Append(@, [by |-> c,
                                instruction |-> cl.calls[c].instruction]),
       !.chain = processed(cl.chain, cl.calls[c].instruction).chain,
       !.calls[c] =
         IF processed(cl.chain, cl.calls[c].instruction).ok
           THEN [@ EXCEPT !.pc = "returned", !.res = "signature"]
           ELSE [@ EXCEPT !.pc = "thrown", !.res = "transaction failed"]]
  /\ UNCHANGED ProposalRest

ProposeNext ==
  \E c \in 1..MaxCallers :
    FetchMultisig(c) \/ DeriveProposal(c) \/ SubmitProposal(c)

SpecPropose == ProposeInit /\ [][ProposeNext]_vars

SubmittedBy(c) ==
  {k \in 1..Len(cl.submitted) : cl.submitted[k].by = c}

\* C28: a createProposal call that finds no multisig account fails with
\* 'Multisig account not found' and submits nothing; a call that finds one
\* derives its proposal id and address from the proposalCount it fetched;
\* and two calls on the same multisig, however their steps interleave, never
\* derive the same proposal id and address.
C28_DistinctProposals ==
  (cl # NoClient /\ cl.op = "createProposal") =>
    /\ \A c \in DOMAIN cl.calls :
         /\ (cl.calls[c].fetched /\ cl.calls[c].msAccount = Null
               /\ cl.calls[c].pc # "fetched") =>
              /\ cl.calls[c].pc = "thrown"
              /\ cl.calls[c].res = "Multisig account not found"
              /\ SubmittedBy(c) = {}
         /\ cl.calls[c].proposal # Null =>
              /\ cl.calls[c].proposalId = cl.calls[c].msAccount.proposalCount
              /\ cl.calls[c].proposal =
                   findProposalAddress(cl.calls[c].params.multisig,
                     cl.calls[c].msAccount.proposalCount, PROGRAM_ID).v[1]
    /\ \A c, d \in DOMAIN cl.calls :
         (c # d /\ cl.calls[c].proposal # Null /\ cl.calls[d].proposal # Null)
           => /\ cl.calls[c].proposalId # cl.calls[d].proposalId
              /\ cl.calls[c].proposal # cl.calls[d].proposal

\* ---------------------------------------------------------------------
\* The scans with their filters: the node holds the accounts of the
\* program, getProgramAccounts returns those that match every memcmp
\* filter, and the method decodes what comes back.
\* ---------------------------------------------------------------------

MaxNode == 2

\* key.toBase58()
toBase58(key) == base58(key)

memcmpFilter(offset, bytes) ==
  [memcmp |-> [offset |-> offset, bytes |-> bytes]]

\* getPositionsByOwner with the owner looked for where the market is
gpaFiltersOwnerAtMarket(op, arg) ==
  CASE op = "getAllMarkets" ->
         <<memcmpFilter(0, bs58Encode(ACCOUNT_DISCRIMINATORS.MARKET))>>
         \o (IF prop(arg, "authority") # Undefined
               THEN <<memcmpFilter(17, toBase58(arg.authority))>>
               ELSE <<>>)
    [] op = "getPositionsByOwner" ->
         <<memcmpFilter(0, bs58Encode(ACCOUNT_DISCRIMINATORS.USER_POSITION)),
           memcmpFilter(9, toBase58(arg))>>
    [] op = "getPositionsByMarket" ->
         <<memcmpFilter(0, bs58Encode(ACCOUNT_DISCRIMINATORS.USER_POSITION)),
           memcmpFilter(9, toBase58(arg))>>
    [] op = "getProposalsByMultisig" ->
         <<memcmpFilter(0,
             bs58Encode(ACCOUNT_DISCRIMINATORS.MULTISIG_PROPOSAL)),
           memcmpFilter(9, toBase58(arg))>>

\* the filters each scan method passes to getProgramAccounts; arg is the
\* filters object of getAllMarkets and the key of the other three
gpaFilters(op, arg) ==
  CASE op = "getAllMarkets" ->
         <<memcmpFilter(0, bs58Encode(ACCOUNT_DISCRIMINATORS.MARKET))>>
         \o (IF prop(arg, "authority") # Undefined
               THEN <<memcmpFilter(17, toBase58(arg.authority))>>
               ELSE <<>>)
    [] op = "getPositionsByOwner" ->
         <<memcmpFilter(0, bs58Encode(ACCOUNT_DISCRIMINATORS.USER_POSITION)),
           memcmpFilter(41, toBase58(arg))>>
    [] op = "getPositionsByMarket" ->
         <<memcmpFilter(0, bs58Encode(ACCOUNT_DISCRIMINATORS.USER_POSITION)),
           memcmpFilter(9, toBase58(arg))>>
    [] op = "getProposalsByMultisig" ->
         <<memcmpFilter(0,
             bs58Encode(ACCOUNT_DISCRIMINATORS.MULTISIG_PROPOSAL)),
           memcmpFilter(9, toBase58(arg))>>

\* what the node compares: the base58 text of each filter, decoded once
decodedFilters(filters) ==
  [k \in 1..Len(filters) |->
     [offset |-> filters[k].memcmp.offset,
      bytes |-> base58Decode(filters[k].memcmp.bytes)]] \o <<>>

\* the node's test of one filter: the account's bytes from the offset on
\* are the filter's bytes
matches(bytes, filter) ==
  subarray(bytes, filter.offset, filter.offset + Len(filter.bytes))
    = filter.bytes

selected(node, filters) ==
  SelectSeq(node,
    LAMBDA held : \A k \in 1..Len(filters) :
                    matches(held.account.data, filters[k]))

\* connection.getProgramAccounts(programId, {filters})
getProgramAccounts(node, filters) ==
  [ok |-> TRUE, v |-> selected(node, decodedFilters(filters))]

\* one scan method, from its filters to its results
filteredScan(op, arg, node) ==
  getProgramAccountsThenScan(ScanDecoder[op],
    getProgramAccounts(node, gpaFilters(op, arg)))

\* the accounts of the node: Markets of both layouts, UserPositions and
\* proposals, whose keys are keys of FilterKeys, and a Market cut after its
\* authority
FilterKeys == {Key(1), Key(2)}

NodeData ==
  {copy(MarketImage("new", <<84>>, <<>>, 3), 17, Key(1)),
   copy(MarketImage("old", <<84>>, <<>>, 3), 17, Key(2)),
   copy(copy(PositionImage, 9, Key(1)), 41, Key(2)),
   copy(copy(PositionImage, 9, Key(2)), 41, Key(1)),
   copy(ProposalImage(0), 9, Key(1)), copy(ProposalImage(0), 9, Key(2)),
   subarray(copy(MarketImage("new", <<84>>, <<>>, 3), 17, Key(1)), 0, 60)}

NodeAccounts ==
  {[pubkey |-> Key(30 + n), account |-> [data |-> d]] :
     n \in {1}, d \in NodeData}

FilterCalls ==
  {[op |-> "getAllMarkets", arg |-> a] :
     a \in {NoFields} \cup {[authority |-> k] : k \in FilterKeys}}
  \cup {[op |-> op, arg |-> k] :
          op \in {"getPositionsByOwner", "getPositionsByMarket",
                  "getProposalsByMultisig"},
          k \in FilterKeys}

FilterInit ==
  /\ wr = NoWriter /\ written = <<>> /\ rd = NoReader /\ rres = <<>>
  /\ acct = NoDecode /\ data = NoDecode /\ dres = NoDecode
  /\ ix = NoIx /\ pda = NoPda /\ heap = NoHeap
  /\ \E call \in FilterCalls, n \in 1..MaxNode :
       \E node \in [1..n -> NodeAccounts] :
         cl = [op |-> call.op, arg |-> call.arg, node |-> node,
               filtered |-> TRUE, res |-> NoClient]

Filtered(op) ==
  /\ cl # NoClient /\ cl.op = op /\ "filtered" \in DOMAIN cl
  /\ cl.res = NoClient
  /\ cl' = [cl EXCEPT !.res = filteredScan(op, cl.arg, cl.node)]
  /\ UNCHANGED <<wr, written, rd, rres, acct, data, dres, ix, pda, heap>>

FilterMarkets == Filtered("getAllMarkets")
FilterPositionsByOwner == Filtered("getPositionsByOwner")
FilterPositionsByMarket == Filtered("getPositionsByMarket")
FilterProposals == Filtered("getProposalsByMultisig")

FilterNext ==
  \/ FilterMarkets \/ FilterPositionsByOwner \/ FilterPositionsByMarket
  \/ FilterProposals

SpecFilter == FilterInit /\ [][FilterNext]_vars

FilterDone ==
  cl # NoClient /\ "filtered" \in DOMAIN cl /\ cl.res # NoClient /\ cl.res.ok

\* the decoded field that the second filter of a scan is about
filteredField(op, account) ==
  CASE op = "getAllMarkets" -> account.authority
    [] op = "getPositionsByOwner" -> account.owner
    [] op = "getPositionsByMarket" -> account.market
    [] op = "getProposalsByMultisig" -> account.multisig

filteredFor(op, arg) == IF op = "getAllMarkets" THEN arg.authority ELSE arg

\* C26: every account that a filtered scan returns decodes with the
\* discriminator of the account type of the scan, and its authority (for
\* getAllMarkets with an authority), owner, market or multisig is the key
\* that was filtered for.
C26_FiltersMatchLayout ==
  FilterDone =>
    \A k \in 1..Len(cl.res.v) :
      /\ cl.res.v[k].account.discriminator =
           CASE cl.op = "getAllMarkets" -> ACCOUNT_DISCRIMINATORS.MARKET
             [] cl.op = "getProposalsByMultisig" ->
                  ACCOUNT_DISCRIMINATORS.MULTISIG_PROPOSAL
             [] OTHER -> ACCOUNT_DISCRIMINATORS.USER_POSITION
      /\ cl.arg # NoFields =>
           filteredField(cl.op, cl.res.v[k].account)
             = filteredFor(cl.op, cl.arg)

\* C26 witness: the node holds two positions with different owners whose
\* market is not the owner looked for, and getPositionsByOwner returns just
\* the one of that owner.
C26_Witness ==
  /\ FilterDone /\ cl.op = "getPositionsByOwner" /\ cl.arg = Key(2)
  /\ Len(cl.node) = 2 /\ Len(cl.res.v) = 1
  /\ cl.res.v[1].account.owner = Key(2)
  /\ cl.res.v[1].account.market = Key(1)
  /\ \E k \in 1..2 :
       subarray(cl.node[k].account.data, 0, 8)
         = ACCOUNT_DISCRIMINATORS.USER_POSITION
       /\ subarray(cl.node[k].account.data, 41, 73) = Key(1)
====
